---- MODULE Spec2Model ----
(***************************************************************************)
(* Model of the power market clearing simulator                            *)
(* (power_market_simulator): the network data model, the structural        *)
(* validation and the clearing entry points (algorithms/__init__.py), the  *)
(* merit-order pricing engine and the congestion adjuster                  *)
(* (algorithms/lmp_algorithm.py), and the 24-hour time-series path         *)
(* (models/time_series.py, algorithms/time_series_lmp.py).                 *)
(*                                                                         *)
(* Representation.                                                         *)
(*  - A Python dict that is iterated (nodes, generators, loads, lines) is  *)
(*    a sequence of records with pairwise distinct ids, in insertion       *)
(*    order.  A dict that is only looked up or compared (a price map, a    *)
(*    bid map) is a function on its key set.                               *)
(*  - Python floats are modelled as exact rationals in fixed point.  A     *)
(*    price is an integer number of 1/PriceScale currency units, a power   *)
(*    is an integer number of 1/PowerScale MW.  The scales are chosen so   *)
(*    that every product and quotient the code forms (x 0.1, / 2, x 0.3,   *)
(*    x 0.7, the hourly factors, all multiples of 1/60) is exact.          *)
(*  - The external LP solver (scipy linprog) is a nondeterministic choice  *)
(*    of its three outcomes and of the values it reports.                  *)
(***************************************************************************)
EXTENDS Integers, Sequences, FiniteSets, TLC

VARIABLES
    network,       \* the Network held by the SpotMarketClearing object
    bid_segments,  \* SpotMarketClearing.bid_segments (None or a dict)
    lmp_results,   \* SpotMarketClearing.lmp_results
    outcome,       \* what the clearing call just made did (how it ended, what it
                   \* returned); forgotten when the caller goes on to change the network
    day_ahead_data,  \* TimeSeriesLMPAlgorithm.day_ahead_data
    hourly_results,  \* TimeSeriesLMPAlgorithm.hourly_results
    hour,            \* calculate_24h_lmp: the loop variable
    results,         \* calculate_24h_lmp: the local map hour -> price map
    pc,              \* where the caller is: "idle", "loop" (inside calculate_24h_lmp), "done"
    previous_run,    \* how the caller's earlier run_time_series_clearing on the same
                     \* DayAheadMarketData object ended, when it makes a second one
    adjuster_lmp,    \* _adjust_lmp_for_network_constraints: the map lmp it updates in place
    lmp_at_entry,    \* the price map as it was handed to the adjuster
    lines_visited    \* how many lines the adjuster's loop has processed

time_series_vars == <<day_ahead_data, hourly_results, hour, results, pc, previous_run>>
adjuster_vars == <<adjuster_lmp, lmp_at_entry, lines_visited>>
vars == <<network, bid_segments, lmp_results, outcome, time_series_vars, adjuster_vars>>

----------------------------------------------------------------------------
(* Bounds of the model *)

MaxNodes == 2
MaxGens == 2
MaxLoads == 2
MaxLines == 2

----------------------------------------------------------------------------
(* Fixed-point arithmetic *)

RECURSIVE Pow(_, _)
Pow(b, k) == IF k = 0 THEN 1 ELSE b * Pow(b, k - 1)

\* One pass of the congestion adjuster divides a price gap by 20 (x 0.1, / 2)
\* once per line, so 20^MaxLines keeps every adjusted price an integer.
PriceScale == Pow(20, MaxLines)
\* An hourly factor is an integer number of 1/FactorScale; tranche fractions
\* are multiples of 1/10.
FactorScale == 60
PowerScale == FactorScale * 10

Price(x) == x * PriceScale
Power(x) == x * PowerScale

Min(a, b) == IF a <= b THEN a ELSE b
Max(a, b) == IF a >= b THEN a ELSE b
Abs(a) == IF a >= 0 THEN a ELSE -a

----------------------------------------------------------------------------
(* Python dicts kept in insertion order *)

Keys(d) == {d[i].id : i \in 1..Len(d)}

\* d[r.id] = r : replace in place when the key exists, append otherwise
DictPut(d, r) ==
    IF r.id \in Keys(d)
    THEN [i \in 1..Len(d) |-> IF d[i].id = r.id THEN r ELSE d[i]]
    ELSE Append(d, r)

----------------------------------------------------------------------------
(* models/network.py *)

Node(id) == [id |-> id]

\* the fields the caller does not name take the dataclass defaults; the
\* catalogues name every unit after its id
Generator(id, node_id, generator_type, min_power, max_power, marginal_cost) ==
    [id |-> id, name |-> id, node_id |-> node_id, generator_type |-> generator_type,
     min_power |-> min_power, max_power |-> max_power,
     marginal_cost |-> marginal_cost,
     startup_cost |-> 0, shutdown_cost |-> 0, is_online |-> TRUE]

Load(id, node_id, demand) ==
    [id |-> id, name |-> id, node_id |-> node_id, demand |-> demand,
     price_elasticity |-> 0]

\* reactance is held in 1/100 p.u.
TransmissionLine(id, from_node, to_node, reactance, thermal_limit, is_active) ==
    [id |-> id, name |-> id, from_node |-> from_node, to_node |-> to_node,
     reactance |-> reactance, thermal_limit |-> thermal_limit,
     is_active |-> is_active]

\* Network.__post_init__ : every map starts empty
EmptyNetwork == [nodes |-> <<>>, generators |-> <<>>, loads |-> <<>>, lines |-> <<>>]

add_node(net, node) == [net EXCEPT !.nodes = DictPut(net.nodes, node)]
add_generator(net, generator) == [net EXCEPT !.generators = DictPut(net.generators, generator)]
add_load(net, load) == [net EXCEPT !.loads = DictPut(net.loads, load)]
add_line(net, line) == [net EXCEPT !.lines = DictPut(net.lines, line)]

get_loads_at_node(net, node_id) ==
    SelectSeq(net.loads, LAMBDA load : load.node_id = node_id)

RECURSIVE SumDemand(_)
SumDemand(loads) ==
    IF loads = <<>> THEN 0 ELSE Head(loads).demand + SumDemand(Tail(loads))

----------------------------------------------------------------------------
(* models/time_series.py : BidSegment *)

BidSegment(start_power, end_power, price) ==
    [start_power |-> start_power, end_power |-> end_power, price |-> price]

capacity(seg) == seg.end_power - seg.start_power

\* `bid_segments or {}` : None and the empty dict both give the empty dict
NoBids == [is_none |-> TRUE, map |-> <<>>]
Bids(map) == [is_none |-> FALSE, map |-> map]
OrEmpty(bids) == IF bids.is_none THEN <<>> ELSE bids.map

\* `gen.id in self.bid_segments and self.bid_segments[gen.id]`
HasSegments(bid_map, gen_id) ==
    gen_id \in DOMAIN bid_map /\ Len(bid_map[gen_id]) > 0

----------------------------------------------------------------------------
(* models/time_series.py : time slots, time series, day-ahead market data *)

HoursPerDay == 24

\* x * factor, for a factor held in 1/FactorScale
Scaled(x, factor) == (x * factor) \div FactorScale
\* x * 0.k
Tenths(x, k) == (x * k) \div 10

TimeSlot(h, load_factor, renewable_factor) ==
    [hour |-> h, load_factor |-> load_factor, renewable_factor |-> renewable_factor]

\* list[h] for a Python list: a negative index counts from the end
AtHour(list, h) == IF h < 0 THEN list[Len(list) + h + 1] ELSE list[h + 1]

GeneratorTimeSeries(generator_id, time_slots, segments, original_generator) ==
    [generator_id |-> generator_id, time_slots |-> time_slots,
     bid_segments |-> segments, original_generator |-> original_generator]

LoadTimeSeries(load_id, time_slots, original_load) ==
    [load_id |-> load_id, time_slots |-> time_slots, original_load |-> original_load]

DayAheadMarketData(net, generator_time_series, load_time_series) ==
    [network |-> net, generator_time_series |-> generator_time_series,
     load_time_series |-> load_time_series]

\* faulty variant: only the upper end of the range is checked
HourOutOfRange_UpperOnly(h) == h >= HoursPerDay

\* `if hour < 0 or hour >= 24: raise ValueError`
HourOutOfRange(h) == h < 0 \/ h >= HoursPerDay

\* generator_type in [GeneratorType.WIND, GeneratorType.SOLAR]
IsRenewable(gen) == gen.generator_type \in {"wind", "solar"}

\* faulty variant: the renewable factor of the hour is not applied
get_available_capacity_IgnoresFactor(gen_ts, h) == gen_ts.original_generator.max_power

get_available_capacity(gen_ts, h) ==
    IF IsRenewable(gen_ts.original_generator)
    THEN Scaled(gen_ts.original_generator.max_power,
                AtHour(gen_ts.time_slots, h).renewable_factor)
    ELSE gen_ts.original_generator.max_power

get_bid_segments(gen_ts, h) ==
    IF IsRenewable(gen_ts.original_generator)
    THEN << BidSegment(0, get_available_capacity(gen_ts, h), 0) >>
    ELSE AtHour(gen_ts.bid_segments, h)

get_demand(load_ts, h) ==
    Scaled(load_ts.original_load.demand, AtHour(load_ts.time_slots, h).load_factor)

\* The four dicts of the base network and the four dicts of a snapshot are
\* objects on a heap; a Network holds references to its dicts.
BaseRefs ==
    [nodes |-> "base.nodes", generators |-> "base.generators",
     loads |-> "base.loads", lines |-> "base.lines"]
HourlyRefs ==
    [nodes |-> "hourly.nodes", generators |-> "hourly.generators",
     loads |-> "hourly.loads", lines |-> "hourly.lines"]

BaseHeap(net) ==
    [ref \in {BaseRefs[f] : f \in DOMAIN BaseRefs} \cup {HourlyRefs[f] : f \in DOMAIN HourlyRefs} |->
        IF ref = BaseRefs.nodes THEN net.nodes
        ELSE IF ref = BaseRefs.generators THEN net.generators
        ELSE IF ref = BaseRefs.loads THEN net.loads
        ELSE IF ref = BaseRefs.lines THEN net.lines
        ELSE <<>>]

\* the network whose dicts the references name
Deref(heap, refs) ==
    [nodes |-> heap[refs.nodes], generators |-> heap[refs.generators],
     loads |-> heap[refs.loads], lines |-> heap[refs.lines]]

\* faulty variant: the dict is handed over, not copied
dict_copy_SameObject(heap, ref, fresh) == [heap |-> heap, ref |-> ref]

\* d.copy(): a new dict object with the same entries
dict_copy(heap, ref, fresh) ==
    [heap |-> [heap EXCEPT ![fresh] = heap[ref]], ref |-> fresh]

\* Network(name=..., nodes=self.network.nodes.copy(), ...)
NewHourlyNetwork(heap) ==
    LET n == dict_copy(heap, BaseRefs.nodes, HourlyRefs.nodes)
        g == dict_copy(n.heap, BaseRefs.generators, HourlyRefs.generators)
        l == dict_copy(g.heap, BaseRefs.loads, HourlyRefs.loads)
        t == dict_copy(l.heap, BaseRefs.lines, HourlyRefs.lines)
    IN  [heap |-> t.heap,
         refs |-> [nodes |-> n.ref, generators |-> g.ref, loads |-> l.ref,
                   lines |-> t.ref]]

\* hourly_network.generators[gen_id] = new_gen, for every generator that has
\* a time series
HourlyGenerators(gens, data, h) ==
    [i \in 1..Len(gens) |->
        LET original_gen == gens[i]
        IN  IF original_gen.id \in DOMAIN data.generator_time_series
            THEN [id |-> original_gen.id,
                  name |-> original_gen.name,
                  node_id |-> original_gen.node_id,
                  generator_type |-> original_gen.generator_type,
                  min_power |-> original_gen.min_power,
                  max_power |->
                      get_available_capacity(data.generator_time_series[original_gen.id], h),
                  marginal_cost |-> original_gen.marginal_cost,
                  startup_cost |-> original_gen.startup_cost,
                  shutdown_cost |-> original_gen.shutdown_cost,
                  is_online |-> original_gen.is_online]
            ELSE original_gen]

\* hourly_network.loads[load_id] = new_load, for every load that has a time
\* series
HourlyLoads(loads, data, h) ==
    [i \in 1..Len(loads) |->
        LET original_load == loads[i]
        IN  IF original_load.id \in DOMAIN data.load_time_series
            THEN [id |-> original_load.id,
                  name |-> original_load.name,
                  node_id |-> original_load.node_id,
                  demand |-> get_demand(data.load_time_series[original_load.id], h),
                  price_elasticity |-> original_load.price_elasticity]
            ELSE original_load]

\* the two update loops, writing through the snapshot's references
UpdateHourly(s, data, h) ==
    [refs |-> s.refs,
     heap |-> [ref \in DOMAIN s.heap |->
                 IF ref = s.refs.loads
                 THEN HourlyLoads(s.heap[ref], data, h)
                 ELSE IF ref = s.refs.generators
                 THEN HourlyGenerators(s.heap[ref], data, h)
                 ELSE s.heap[ref]]]

\* the heap after get_hourly_network(h) and the references of the snapshot
HourlyHeap(data, h) == UpdateHourly(NewHourlyNetwork(BaseHeap(data.network)), data, h)

\* the snapshot get_hourly_network(h) returns, for an hour in range
get_hourly_network(data, h) ==
    Deref(HourlyHeap(data, h).heap, HourlyHeap(data, h).refs)

\* the base network as get_hourly_network(h) leaves it
BaseAfterSnapshot(data, h) == Deref(HourlyHeap(data, h).heap, BaseRefs)

\* get_hourly_network(h) raises what the first curve lookup raises: there is
\* one when a generator or a load of the network has a time series
HourlyNetworkRaises(data, h) ==
    /\ HourOutOfRange(h)
    /\ \/ DOMAIN data.generator_time_series \cap Keys(data.network.generators) # {}
       \/ DOMAIN data.load_time_series \cap Keys(data.network.loads) # {}

\* get_hourly_bid_data(h) looks up every generator time series
HourlyBidDataRaises(data, h) ==
    HourOutOfRange(h) /\ DOMAIN data.generator_time_series # {}

get_hourly_bid_data(data, h) ==
    [gen_id \in DOMAIN data.generator_time_series |->
        get_bid_segments(data.generator_time_series[gen_id], h)]

\* d[id] for a dict kept as a sequence
Lookup(d, id) == d[CHOOSE i \in 1..Len(d) : d[i].id = id]

\* create_sample_day_ahead_data: the daily load curve, in 1/60
SampleLoadFactor(h) ==
    IF 6 <= h /\ h <= 9 THEN 57
    ELSE IF 17 <= h /\ h <= 21 THEN 60
    ELSE IF 22 <= h \/ h <= 5 THEN 36
    ELSE 48

\* create_sample_day_ahead_data: the renewable output curve, in 1/60.
\* 0.2 + 0.7 * (1 - |h - 13| / 6) is (12 + 7 * (6 - |h - 13|)) / 60.
SampleRenewableFactor(gen, h) ==
    IF gen.generator_type = "wind"
    THEN (IF 22 <= h \/ h <= 5 THEN 48 ELSE 24)
    ELSE IF gen.generator_type = "solar"
    THEN (IF h < 7 \/ h > 19 THEN 6 ELSE Max(6, 12 + 7 * (6 - Abs(h - 13))))
    ELSE FactorScale

SampleGeneratorTimeSlots(gen) ==
    [i \in 1..HoursPerDay |->
        TimeSlot(i - 1, SampleLoadFactor(i - 1), SampleRenewableFactor(gen, i - 1))]

\* faulty variant: the last tranche stops at 0.9 x max_power in the peak hours
SampleBidSegments_PeakDerated(gen) ==
    [i \in 1..HoursPerDay |->
        IF IsRenewable(gen) THEN <<>>
        ELSE << BidSegment(0, Tenths(gen.max_power, 3), gen.marginal_cost),
                BidSegment(Tenths(gen.max_power, 3), Tenths(gen.max_power, 7),
                           gen.marginal_cost + Price(20)),
                BidSegment(Tenths(gen.max_power, 7),
                           IF i > 17 /\ i < 23 THEN Tenths(gen.max_power, 9)
                           ELSE gen.max_power,
                           gen.marginal_cost + Price(50)) >>]

\* three tranches for a conventional unit, none for a renewable one
SampleBidSegments(gen) ==
    [i \in 1..HoursPerDay |->
        IF IsRenewable(gen) THEN <<>>
        ELSE << BidSegment(0, Tenths(gen.max_power, 3), gen.marginal_cost),
                BidSegment(Tenths(gen.max_power, 3), Tenths(gen.max_power, 7),
                           gen.marginal_cost + Price(20)),
                BidSegment(Tenths(gen.max_power, 7), gen.max_power,
                           gen.marginal_cost + Price(50)) >>]

SampleLoadTimeSlots ==
    [i \in 1..HoursPerDay |-> TimeSlot(i - 1, SampleLoadFactor(i - 1), FactorScale)]

create_sample_day_ahead_data(net) ==
    DayAheadMarketData(
        net,
        [gen_id \in Keys(net.generators) |->
            GeneratorTimeSeries(gen_id,
                                SampleGeneratorTimeSlots(Lookup(net.generators, gen_id)),
                                SampleBidSegments(Lookup(net.generators, gen_id)),
                                Lookup(net.generators, gen_id))],
        [load_id \in Keys(net.loads) |->
            LoadTimeSeries(load_id, SampleLoadTimeSlots, Lookup(net.loads, load_id))])

----------------------------------------------------------------------------
(* algorithms/lmp_algorithm.py : the merit-order pricing engine *)

NoGeneratorPrice == 1000
ShortagePremium == 500
NoSupplyShortagePrice == 800
NoSupplyBasePrice == 500

\* faulty variant: the supply of the whole network is pooled at every node
GeneratorsAtNode_Pooled(net, node_id) == net.generators

\* the generators located at a node, in generator-map order
GeneratorsAtNode(net, node_id) ==
    SelectSeq(net.generators, LAMBDA gen : gen.node_id = node_id)

\* faulty variant: an unsegmented generator is offered at max(max_power, total_demand)
GeneratorTranches_MaxForMin(gen, bid_map, total_demand) ==
    IF HasSegments(bid_map, gen.id)
    THEN [i \in 1..Len(bid_map[gen.id]) |->
            <<bid_map[gen.id][i].price, capacity(bid_map[gen.id][i])>>]
    ELSE << <<gen.marginal_cost, Max(gen.max_power, total_demand)>> >>

\* faulty variant: an unsegmented generator with nothing to offer is left
\* out of the curve
GeneratorTranches_SkipsZeroCapacity(gen, bid_map, total_demand) ==
    IF HasSegments(bid_map, gen.id)
    THEN [i \in 1..Len(bid_map[gen.id]) |->
            <<bid_map[gen.id][i].price, capacity(bid_map[gen.id][i])>>]
    ELSE IF Min(gen.max_power, total_demand) = 0 THEN <<>>
    ELSE << <<gen.marginal_cost, Min(gen.max_power, total_demand)>> >>

\* the tranches one generator contributes: a (price, capacity) pair per
\* segment, or one pair (marginal_cost, min(max_power, total_demand))
GeneratorTranches(gen, bid_map, total_demand) ==
    IF HasSegments(bid_map, gen.id)
    THEN [i \in 1..Len(bid_map[gen.id]) |->
            <<bid_map[gen.id][i].price, capacity(bid_map[gen.id][i])>>]
    ELSE << <<gen.marginal_cost, Min(gen.max_power, total_demand)>> >>

RECURSIVE BuildSupplyCurve(_, _, _)
BuildSupplyCurve(node_gens, bid_map, total_demand) ==
    IF node_gens = <<>> THEN <<>>
    ELSE GeneratorTranches(Head(node_gens), bid_map, total_demand)
         \o BuildSupplyCurve(Tail(node_gens), bid_map, total_demand)

\* list.sort(key=price) is stable: x goes behind every tranche priced <= x
RECURSIVE InsertByPrice(_, _)
InsertByPrice(sorted, x) ==
    IF sorted = <<>> THEN <<x>>
    ELSE IF Head(sorted)[1] <= x[1]
         THEN <<Head(sorted)>> \o InsertByPrice(Tail(sorted), x)
         ELSE <<x>> \o sorted

\* faulty variant: the curve is left in enumeration order
SortByPrice_Unsorted(curve) == curve

RECURSIVE SortByPrice(_)
SortByPrice(curve) ==
    IF curve = <<>> THEN <<>>
    ELSE InsertByPrice(SortByPrice(SubSeq(curve, 1, Len(curve) - 1)),
                       curve[Len(curve)])

RECURSIVE MaxPrice(_)
MaxPrice(curve) ==
    IF Len(curve) = 1 THEN curve[1][1]
    ELSE Max(curve[1][1], MaxPrice(Tail(curve)))

\* the accumulation loop with its break, from tranche i on
RECURSIVE AccumulateSupply(_, _, _, _)
AccumulateSupply(curve, i, cumulative_supply, total_demand) ==
    IF i > Len(curve)
    THEN [cumulative_supply |-> cumulative_supply, marginal_price |-> 0]
    ELSE LET cum == cumulative_supply + curve[i][2]
         IN  IF cum >= total_demand
             THEN [cumulative_supply |-> cum, marginal_price |-> curve[i][1]]
             ELSE AccumulateSupply(curve, i + 1, cum, total_demand)

\* the two branches after the loop (single-period engine)
ShortagePrice(curve) ==
    IF curve # <<>> THEN MaxPrice(curve) + Price(ShortagePremium)
    ELSE Price(NoSupplyShortagePrice)

\* faulty variant: the insufficient-supply branch is missing
PriceAfterLoop_NoShortageBranch(r, curve, total_demand) ==
    IF curve = <<>> THEN Price(NoSupplyBasePrice) ELSE r.marginal_price

\* r is what the loop leaves in cumulative_supply and marginal_price
PriceAfterLoop(r, curve, total_demand) ==
    IF r.cumulative_supply < total_demand THEN ShortagePrice(curve)
    ELSE IF curve = <<>> THEN Price(NoSupplyBasePrice)
    ELSE r.marginal_price

ClearingPrice(curve, total_demand) ==
    PriceAfterLoop(AccumulateSupply(curve, 1, 0, total_demand), curve, total_demand)

\* the price of one node before the congestion adjustment
SupplyCurve(node_gens, bid_map, total_demand) ==
    SortByPrice(BuildSupplyCurve(node_gens, bid_map, total_demand))

\* faulty variant: a node without generators is cleared like any other
NodePrice_NoGeneratorCheck(node_gens, bid_map, total_demand) ==
    ClearingPrice(SupplyCurve(node_gens, bid_map, total_demand), total_demand)

NodePrice(node_gens, bid_map, total_demand) ==
    IF node_gens = <<>> THEN Price(NoGeneratorPrice)
    ELSE ClearingPrice(SupplyCurve(node_gens, bid_map, total_demand), total_demand)

MeritOrderPrice(net, bid_map, node_id) ==
    NodePrice(GeneratorsAtNode(net, node_id), bid_map,
              SumDemand(get_loads_at_node(net, node_id)))

\* faulty variant: only nodes that have a generator get an entry
MeritOrderPrices_SuppliedNodesOnly(net, bid_map) ==
    [node_id \in {n \in Keys(net.nodes) : GeneratorsAtNode(net, n) # <<>>} |->
        MeritOrderPrice(net, bid_map, node_id)]

MeritOrderPrices(net, bid_map) ==
    [node_id \in Keys(net.nodes) |-> MeritOrderPrice(net, bid_map, node_id)]

----------------------------------------------------------------------------
(* algorithms/lmp_algorithm.py : the congestion adjuster *)

PriceDiffThreshold == 10
CongestionCoefficientInverse == 10

\* faulty variant: a gap of exactly the threshold triggers the adjustment
AdjustForLine_ThresholdInclusive(lmp_map, line) ==
    IF ~line.is_active THEN lmp_map
    ELSE LET from_lmp == lmp_map[line.from_node]
             to_lmp == lmp_map[line.to_node]
             price_diff == Abs(from_lmp - to_lmp)
         IN  IF price_diff >= Price(PriceDiffThreshold)
             THEN LET congestion_cost == price_diff \div CongestionCoefficientInverse
                      lmp1 == [lmp_map EXCEPT ![line.from_node] =
                                 Max(lmp_map[line.from_node], from_lmp + congestion_cost \div 2)]
                  IN  [lmp1 EXCEPT ![line.to_node] =
                                 Max(lmp1[line.to_node], to_lmp - congestion_cost \div 2)]
             ELSE lmp_map

\* faulty variant: the whole congestion cost is applied, not half of it
AdjustForLine_FullCost(lmp_map, line) ==
    IF ~line.is_active THEN lmp_map
    ELSE LET from_lmp == lmp_map[line.from_node]
             to_lmp == lmp_map[line.to_node]
             price_diff == Abs(from_lmp - to_lmp)
         IN  IF price_diff > Price(PriceDiffThreshold)
             THEN LET congestion_cost == price_diff \div CongestionCoefficientInverse
                      lmp1 == [lmp_map EXCEPT ![line.from_node] =
                                 Max(lmp_map[line.from_node], from_lmp + congestion_cost)]
                  IN  [lmp1 EXCEPT ![line.to_node] =
                                 Max(lmp1[line.to_node], to_lmp - congestion_cost)]
             ELSE lmp_map

\* faulty variant: the congestion cost is taken off the higher-priced end
\* and added to the lower-priced end
AdjustForLine_Symmetric(lmp_map, line) ==
    IF ~line.is_active THEN lmp_map
    ELSE LET from_lmp == lmp_map[line.from_node]
             to_lmp == lmp_map[line.to_node]
             price_diff == Abs(from_lmp - to_lmp)
         IN  IF price_diff > Price(PriceDiffThreshold)
             THEN LET congestion_cost == price_diff \div CongestionCoefficientInverse
                      lmp1 == [lmp_map EXCEPT ![line.from_node] =
                                 IF from_lmp < to_lmp THEN from_lmp + congestion_cost \div 2
                                 ELSE from_lmp - congestion_cost \div 2]
                  IN  [lmp1 EXCEPT ![line.to_node] =
                                 IF from_lmp < to_lmp THEN to_lmp - congestion_cost \div 2
                                 ELSE to_lmp + congestion_cost \div 2]
             ELSE lmp_map

\* faulty variant: the congestion cost is added and subtracted without the
\* max() guards that keep a price from moving down
AdjustForLine_Unguarded(lmp, line) ==
    IF ~line.is_active THEN lmp
    ELSE LET from_lmp == lmp[line.from_node]
             to_lmp == lmp[line.to_node]
             price_diff == Abs(from_lmp - to_lmp)
         IN  IF price_diff > Price(PriceDiffThreshold)
             THEN LET congestion_cost == price_diff \div CongestionCoefficientInverse
                      lmp1 == [lmp EXCEPT ![line.from_node] =
                                 from_lmp + congestion_cost \div 2]
                  IN  [lmp1 EXCEPT ![line.to_node] = to_lmp - congestion_cost \div 2]
             ELSE lmp

\* the loop body for one line whose endpoints are keys of lmp
AdjustForLine(lmp, line) ==
    IF ~line.is_active THEN lmp
    ELSE LET from_lmp == lmp[line.from_node]
             to_lmp == lmp[line.to_node]
             price_diff == Abs(from_lmp - to_lmp)
         IN  IF price_diff > Price(PriceDiffThreshold)
             THEN LET congestion_cost == price_diff \div CongestionCoefficientInverse
                      lmp1 == [lmp EXCEPT ![line.from_node] =
                                 Max(lmp[line.from_node], from_lmp + congestion_cost \div 2)]
                  IN  [lmp1 EXCEPT ![line.to_node] =
                                 Max(lmp1[line.to_node], to_lmp - congestion_cost \div 2)]
             ELSE lmp

\* lmp[line.from_node] / lmp[line.to_node] raise KeyError on a missing key
LineRaisesKeyError(lmp, line) ==
    line.is_active /\ ~({line.from_node, line.to_node} \subseteq DOMAIN lmp)

\* how a call ends: it returns a value or raises an error
Returned(value) == [kind |-> "returned", value |-> value]
Raised(error) == [kind |-> error, value |-> <<>>]

RECURSIVE adjust_lmp_for_network_constraints(_, _)
adjust_lmp_for_network_constraints(lmp, lines) ==
    IF lines = <<>> THEN Returned(lmp)
    ELSE IF LineRaisesKeyError(lmp, Head(lines)) THEN Raised("KeyError")
    ELSE adjust_lmp_for_network_constraints(AdjustForLine(lmp, Head(lines)), Tail(lines))

\* _calculate_simple_lmp; merit is the map as the node loop leaves it, before
\* the adjuster is called on it
AdjustedFrom(lmp, lines) ==
    adjust_lmp_for_network_constraints(lmp, lines) @@ [merit |-> lmp]

calculate_simple_lmp(net, bid_map) ==
    AdjustedFrom(MeritOrderPrices(net, bid_map), net.lines)

----------------------------------------------------------------------------
(* algorithms/time_series_lmp.py : LMPAlgorithmWithSegments._calculate_simple_lmp *)

\* faulty variant: the shortage premium is left out
PriceAfterLoopWithSegments_NoPremium(r, curve, total_demand) ==
    IF r.cumulative_supply < total_demand
    THEN (IF curve # <<>> THEN MaxPrice(curve) ELSE Price(NoSupplyShortagePrice))
    ELSE r.marginal_price

\* the time-series engine has the insufficient-supply branch only
PriceAfterLoopWithSegments(r, curve, total_demand) ==
    IF r.cumulative_supply < total_demand
    THEN (IF curve # <<>> THEN MaxPrice(curve) + Price(ShortagePremium)
          ELSE Price(NoSupplyShortagePrice))
    ELSE r.marginal_price

ClearingPriceWithSegments(curve, total_demand) ==
    PriceAfterLoopWithSegments(AccumulateSupply(curve, 1, 0, total_demand),
                               curve, total_demand)

NodePriceWithSegments(node_gens, bid_map, total_demand) ==
    IF node_gens = <<>> THEN Price(NoGeneratorPrice)
    ELSE ClearingPriceWithSegments(SupplyCurve(node_gens, bid_map, total_demand),
                                   total_demand)

MeritOrderPricesWithSegments(net, bid_map) ==
    [node_id \in Keys(net.nodes) |->
        NodePriceWithSegments(GeneratorsAtNode(net, node_id), bid_map,
                              SumDemand(get_loads_at_node(net, node_id)))]

calculate_simple_lmp_with_segments(net, bid_map) ==
    AdjustedFrom(MeritOrderPricesWithSegments(net, bid_map), net.lines)

----------------------------------------------------------------------------
(* algorithms/lmp_algorithm.py : formulation, solver call, calculate_lmp.
   cls is the class of the algorithm object: LMPAlgorithmWithSegments
   inherits calculate_lmp and _extract_lmp and overrides the formulator and
   _calculate_simple_lmp. *)

Base == "LMPAlgorithm"
WithSegments == "LMPAlgorithmWithSegments"

\* self._calculate_simple_lmp()
SimpleLmp(cls, net, bid_map) ==
    IF cls = WithSegments THEN calculate_simple_lmp_with_segments(net, bid_map)
    ELSE calculate_simple_lmp(net, bid_map)

\* _build_optimization_problem raises KeyError when a generator's node has no
\* row index (node_to_idx[gen.node_id]) and, in the base class with no
\* generator at all, when the placeholder id "virtual" is looked up in the
\* generator map.
FormulationRaises(cls, net) ==
    \/ cls = Base /\ net.generators = <<>>
    \/ \E i \in 1..Len(net.generators) :
          net.generators[i].node_id \notin Keys(net.nodes)

\* segments_info: the decision variables, a (gen_id, seg_idx, segment) entry
\* per bid segment of a generator that has segments and one entry with
\* segment None for any other generator, in generator-map order
RECURSIVE SegmentsInfo(_, _)
SegmentsInfo(gens, bid_map) ==
    IF gens = <<>> THEN <<>>
    ELSE (IF HasSegments(bid_map, Head(gens).id)
          THEN [i \in 1..Len(bid_map[Head(gens).id]) |->
                  [gen_id |-> Head(gens).id, seg_idx |-> i - 1, is_none |-> FALSE,
                   segment |-> bid_map[Head(gens).id][i]]]
          ELSE << [gen_id |-> Head(gens).id, seg_idx |-> 0, is_none |-> TRUE,
                   segment |-> <<>>] >>)
         \o SegmentsInfo(Tail(gens), bid_map)

\* `if total_vars == 0:` the base class puts one placeholder variable;
\* the override in LMPAlgorithmWithSegments has no such branch
WithVirtual(cls, info) ==
    IF cls = Base /\ info = <<>>
    THEN << [gen_id |-> "virtual", seg_idx |-> 0, is_none |-> TRUE, segment |-> <<>>] >>
    ELSE info

\* c: the segment's price, or the marginal cost of
\* self.network.generators[gen_id]
Objective(info, net) ==
    [k \in 1..Len(info) |->
        IF info[k].is_none THEN Lookup(net.generators, info[k].gen_id).marginal_cost
        ELSE info[k].segment.price]

\* faulty variant: the column index advances by one per generator
RECURSIVE VariableNodes_OnePerGenerator(_, _)
VariableNodes_OnePerGenerator(gens, bid_map) ==
    IF gens = <<>> THEN <<>>
    ELSE <<Head(gens).node_id>> \o VariableNodes_OnePerGenerator(Tail(gens), bid_map)

\* the second loop over gen_list: the node whose row gets the coefficient 1
\* in each column, var_idx advancing by the number of segments or by one
RECURSIVE VariableNodes(_, _)
VariableNodes(gens, bid_map) ==
    IF gens = <<>> THEN <<>>
    ELSE (IF HasSegments(bid_map, Head(gens).id)
          THEN [j \in 1..Len(bid_map[Head(gens).id]) |-> Head(gens).node_id]
          ELSE <<Head(gens).node_id>>)
         \o VariableNodes(Tail(gens), bid_map)

\* A_eq = np.zeros((n_nodes, total_vars)) with the coefficients 1 set
EqualityMatrix(net, columns, total_vars) ==
    [i \in 1..Len(net.nodes) |->
        [j \in 1..total_vars |->
            IF j <= Len(columns) /\ columns[j] = net.nodes[i].id THEN 1 ELSE 0]]

\* b_eq: the total demand of the loads at each node
RightHandSide(net) ==
    [i \in 1..Len(net.nodes) |-> SumDemand(get_loads_at_node(net, net.nodes[i].id))]

\* faulty variant: one (min_power, max_power) pair per generator, segments or not
RECURSIVE Bounds_WholeGenerator(_, _)
Bounds_WholeGenerator(gens, bid_map) ==
    IF gens = <<>> THEN <<>>
    ELSE << <<Head(gens).min_power, Head(gens).max_power>> >>
         \o Bounds_WholeGenerator(Tail(gens), bid_map)

\* the third loop over gen_list: (0, seg.capacity()) per segment, or
\* (min_power, max_power)
RECURSIVE Bounds(_, _)
Bounds(gens, bid_map) ==
    IF gens = <<>> THEN <<>>
    ELSE (IF HasSegments(bid_map, Head(gens).id)
          THEN [j \in 1..Len(bid_map[Head(gens).id]) |->
                  <<0, capacity(bid_map[Head(gens).id][j])>>]
          ELSE << <<Head(gens).min_power, Head(gens).max_power>> >>)
         \o Bounds(Tail(gens), bid_map)

RECURSIVE SumOf(_)
SumOf(q) == IF q = <<>> THEN 0 ELSE Head(q) + SumOf(Tail(q))

\* the test that guards the warning: `total_gen_capacity < total_demand * 0.9`
\* in LMPAlgorithm, `total_gen_capacity < total_demand` in the override
CapacityWarning(cls, total_gen_capacity, total_demand) ==
    IF cls = WithSegments THEN total_gen_capacity < total_demand
    ELSE total_gen_capacity * 10 < total_demand * 9

\* the problem for these variables; warning tells whether the warning was
\* printed
Problem(cls, net, info, bounds, columns) ==
    [c |-> Objective(info, net),
     A_eq |-> EqualityMatrix(net, columns, Len(info)),
     b_eq |-> RightHandSide(net),
     bounds |-> bounds,
     warning |-> CapacityWarning(cls, SumOf([k \in 1..Len(bounds) |-> bounds[k][2]]),
                                 SumOf(RightHandSide(net)))]

\* _build_optimization_problem of either class
build_optimization_problem(cls, net, bid_map) ==
    IF FormulationRaises(cls, net) THEN Raised("KeyError")
    ELSE Returned(Problem(cls, net,
                          WithVirtual(cls, SegmentsInfo(net.generators, bid_map)),
                          Bounds(net.generators, bid_map),
                          VariableNodes(net.generators, bid_map)))

\* what linprog can do with a problem: report success, report non-success,
\* or raise; x stands for the variable values it reports
SolverStatuses == {"success", "failure", "exception"}
SolverValues == {0, Power(50)}
SolverResults == [status : SolverStatuses, x : SolverValues]

WithLog(result, log) == result @@ [log |-> log]
RaisedInTry(error, log) == [kind |-> error, value |-> <<>>, merit |-> <<>>, log |-> log]

\* faulty variant: the prices are read off the solver's values
extract_lmp_FromSolverValues(cls, net, bid_map, result) ==
    [kind |-> "returned", value |-> [n \in Keys(net.nodes) |-> result.x],
     merit |-> MeritOrderPrices(net, bid_map)]

\* _extract_lmp(result): the solver's result is not read
extract_lmp(cls, net, bid_map, result) == SimpleLmp(cls, net, bid_map)

\* the body of the try block: it returns a price map or raises
TryBlock(cls, net, bid_map, result) ==
    IF FormulationRaises(cls, net)
    THEN RaisedInTry("KeyError", <<"formulate">>)
    ELSE IF result.status = "exception"
    THEN RaisedInTry("SolverError", <<"formulate", "solve">>)
    ELSE IF result.status = "failure"
    THEN WithLog(SimpleLmp(cls, net, bid_map), <<"formulate", "solve", "price">>)
    ELSE WithLog(extract_lmp(cls, net, bid_map, result), <<"formulate", "solve", "price">>)

\* `except Exception`: the simplified method is run (again); what it raises escapes
ExceptHandler(cls, net, bid_map, log) ==
    WithLog(SimpleLmp(cls, net, bid_map), Append(log, "price"))

\* faulty variant: no except clause, what the try block raises escapes
TryExcept_NoHandler(try, cls, net, bid_map) == try

\* try: ... except Exception: ...
TryExcept(try, cls, net, bid_map) ==
    IF try.kind = "returned" THEN try ELSE ExceptHandler(cls, net, bid_map, try.log)

calculate_lmp(cls, net, bid_map, result) ==
    TryExcept(TryBlock(cls, net, bid_map, result), cls, net, bid_map)

\* module-level run_clearing(network, bid_segments): LMPAlgorithm(...).calculate_lmp()
run_clearing(net, bids, result) == calculate_lmp(Base, net, OrEmpty(bids), result)

\* faulty variant: the snapshot of the hour before is carried into the hour
calculate_hour_CarriesSnapshot(data, h, result) ==
    calculate_lmp(WithSegments, get_hourly_network(data, Max(h - 1, 0)),
                  get_hourly_bid_data(data, h), result)

\* calculate_24h_lmp, one pass of the loop body:
\* LMPAlgorithmWithSegments(hourly_network, hourly_bids).calculate_lmp()
calculate_hour(data, h, result) ==
    IF HourlyNetworkRaises(data, h) \/ HourlyBidDataRaises(data, h)
    THEN RaisedInTry("ValueError", <<>>)
    ELSE calculate_lmp(WithSegments, get_hourly_network(data, h),
                       get_hourly_bid_data(data, h), result)

\* faulty variant: the hours are keyed 1..24
StoreHour_KeyedFromOne(map, h, lmp_result) ==
    [k \in DOMAIN map \cup {h + 1} |-> IF k = h + 1 THEN lmp_result ELSE map[k]]

\* results[hour] = lmp_result
StoreHour(map, h, lmp_result) ==
    [k \in DOMAIN map \cup {h} |-> IF k = h THEN lmp_result ELSE map[k]]

----------------------------------------------------------------------------
(* algorithms/__init__.py : SpotMarketClearing *)

\* faulty variant: the loads' node references are not checked
validate_network_LoadsUnchecked(net) ==
    IF net.nodes = <<>> THEN "No nodes defined in network"
    ELSE IF net.generators = <<>> THEN "No generators defined in network"
    ELSE IF \E i \in 1..Len(net.generators) :
               net.generators[i].node_id \notin Keys(net.nodes)
    THEN "Generator connected to non-existent node"
    ELSE "ok"

\* _validate_network: the message of the ValueError it raises, or "ok"
validate_network(net) ==
    IF net.nodes = <<>> THEN "No nodes defined in network"
    ELSE IF net.generators = <<>> THEN "No generators defined in network"
    ELSE IF \E i \in 1..Len(net.generators) :
               net.generators[i].node_id \notin Keys(net.nodes)
    THEN "Generator connected to non-existent node"
    ELSE IF \E i \in 1..Len(net.loads) :
               net.loads[i].node_id \notin Keys(net.nodes)
    THEN "Load connected to non-existent node"
    ELSE "ok"

\* SpotMarketClearing.run_clearing: the call's outcome and the stored results
\* after it, given the stored results before it
ValidationFailed(message, stored) ==
    [kind |-> "ValueError", value |-> <<>>, merit |-> <<>>,
     message |-> message, log |-> <<"validate">>, stored |-> stored]

\* self.lmp_results = run_clearing(...): assigned only when the call returns
AfterClearing(r, stored) ==
    [log |-> <<"validate">> \o r.log, message |-> "",
     stored |-> IF r.kind = "returned" THEN r.value ELSE stored] @@ r

\* faulty variant: the clearing runs and is stored before the network is validated
SpotRunClearing_ValidatesLast(net, bids, stored, result) ==
    IF validate_network(net) # "ok"
    THEN ValidationFailed(validate_network(net),
                          AfterClearing(run_clearing(net, bids, result), stored).stored)
    ELSE AfterClearing(run_clearing(net, bids, result), stored)

SpotRunClearing(net, bids, stored, result) ==
    IF validate_network(net) # "ok"
    THEN ValidationFailed(validate_network(net), stored)
    ELSE AfterClearing(run_clearing(net, bids, result), stored)

----------------------------------------------------------------------------
(* The callers' inputs *)

NodeOrder == <<"N1", "N2", "N3", "N4">>
MissingNode == "N9"

\* The caller names what it adds in the order it adds it, so the k-th entry
\* of a catalogue can only follow entries before it.
GeneratorOrder ==
    << Generator("G1", "N1", "thermal", 0, Power(100), Price(30)),
       Generator("G2", "N2", "wind", 0, Power(200), Price(50)),
       Generator("G3", MissingNode, "thermal", 0, Power(100), Price(40)) >>

LoadOrder ==
    << Load("L1", "N1", Power(80)),
       Load("L2", "N2", Power(250)),
       Load("L3", MissingNode, Power(10)) >>

LineOrder ==
    << TransmissionLine("T1", "N1", "N2", 10, Power(100), TRUE),
       TransmissionLine("T2", "N2", "N1", 10, Power(100), FALSE),
       TransmissionLine("T3", "N2", MissingNode, 10, Power(100), TRUE) >>

\* entry k of a catalogue may be added to dict d: d holds only earlier entries
MayAdd(d, order, k) ==
    \A i \in 1..Len(d) : \E j \in 1..(k - 1) : order[j].id = d[i].id

BidChoices ==
    { NoBids,
      Bids([g \in {"G1"} |-> << BidSegment(0, Power(30), Price(20)),
                               BidSegment(Power(30), Power(100), Price(45)) >>]),
      Bids([g \in {"G1", "G2"} |->
              IF g = "G1" THEN <<>>
              ELSE << BidSegment(0, Power(200), Price(0)) >>]) }

----------------------------------------------------------------------------
(* The clearing object's life: the caller builds the network and calls *)

NoOutcome == [call |-> "none", args |-> <<>>, kind |-> "none", value |-> <<>>, merit |-> <<>>,
              message |-> "", log |-> <<>>, solver |-> "none"]

\* no TimeSeriesLMPAlgorithm object exists
NoDayAheadData == DayAheadMarketData(EmptyNetwork, <<>>, <<>>)

NoTimeSeries ==
    /\ day_ahead_data = NoDayAheadData
    /\ hourly_results = <<>>
    /\ hour = 0
    /\ results = <<>>
    /\ pc = "idle"
    /\ previous_run = NoOutcome

\* the adjuster is not being followed line by line
NoAdjuster ==
    /\ adjuster_lmp = <<>>
    /\ lmp_at_entry = <<>>
    /\ lines_visited = 0

Init ==
    /\ network = EmptyNetwork
    /\ bid_segments \in BidChoices
    /\ lmp_results = <<>>
    /\ outcome = NoOutcome
    /\ NoTimeSeries
    /\ NoAdjuster

AddNode ==
    /\ Len(network.nodes) < MaxNodes
    /\ Len(network.nodes) < Len(NodeOrder)
    /\ network' = add_node(network, Node(NodeOrder[Len(network.nodes) + 1]))
    /\ outcome' = NoOutcome
    /\ UNCHANGED <<bid_segments, lmp_results, time_series_vars, adjuster_vars>>

AddGenerator ==
    /\ Len(network.generators) < MaxGens
    /\ \E k \in 1..Len(GeneratorOrder) :
          /\ MayAdd(network.generators, GeneratorOrder, k)
          /\ network' = add_generator(network, GeneratorOrder[k])
    /\ outcome' = NoOutcome
    /\ UNCHANGED <<bid_segments, lmp_results, time_series_vars, adjuster_vars>>

AddLoad ==
    /\ Len(network.loads) < MaxLoads
    /\ \E k \in 1..Len(LoadOrder) :
          /\ MayAdd(network.loads, LoadOrder, k)
          /\ network' = add_load(network, LoadOrder[k])
    /\ outcome' = NoOutcome
    /\ UNCHANGED <<bid_segments, lmp_results, time_series_vars, adjuster_vars>>

AddLine ==
    /\ Len(network.lines) < MaxLines
    /\ \E k \in 1..Len(LineOrder) :
          /\ MayAdd(network.lines, LineOrder, k)
          /\ network' = add_line(network, LineOrder[k])
    /\ outcome' = NoOutcome
    /\ UNCHANGED <<bid_segments, lmp_results, time_series_vars, adjuster_vars>>

\* clearing.run_clearing() on the SpotMarketClearing object
RunClearing ==
    /\ pc = "idle"
    /\ \E result \in SolverResults :
       \E r \in {SpotRunClearing(network, bid_segments, lmp_results, result)} :
          /\ outcome' = [call |-> "SpotMarketClearing.run_clearing", args |-> <<>>,
                         kind |-> r.kind, value |-> r.value, merit |-> r.merit,
                         message |-> r.message, log |-> r.log,
                         solver |-> result.status]
          /\ lmp_results' = r.stored
    /\ UNCHANGED <<network, bid_segments, time_series_vars, adjuster_vars>>

Next ==
    \/ AddNode
    \/ AddGenerator
    \/ AddLoad
    \/ AddLine
    \/ RunClearing

Spec == Init /\ [][Next]_vars

----------------------------------------------------------------------------
(* The pricing engine on its own: run_clearing(network, bid_segments), the
   module-level function, applied to networks drawn from catalogues.  It
   does not validate, so generators and lines may name a missing node. *)

Range(q) == {q[i] : i \in 1..Len(q)}

\* the sequences of at most n pairwise distinct members of S
RECURSIVE Arrangements(_, _)
Arrangements(S, n) ==
    IF n = 0 THEN {<<>>}
    ELSE LET shorter == Arrangements(S, n - 1)
         IN  shorter \cup {Append(q, x) : q \in shorter, x \in S}

DistinctArrangements(S, n) ==
    {q \in Arrangements(S, n) : Cardinality(Range(q)) = Len(q)}

PricingNodes == <<Node("N1"), Node("N2"), Node("N3")>>

PricingGenerators ==
    { Generator("G1", "N1", "thermal", 0, Power(100), Price(30)),
      Generator("G2", "N2", "thermal", 0, Power(200), Price(50)),
      Generator("G3", "N1", "hydro", 0, Power(200), Price(50)),
      Generator("G4", "N1", "wind", 0, 0, Price(20)),
      Generator("G5", MissingNode, "thermal", 0, Power(100), Price(40)) }

PricingDemands == {0, Power(80), Power(150), Power(350)}

PricingLoads(d) ==
    << Load("L1", "N1", d), Load("L2", "N2", Power(150)), Load("L3", "N3", Power(70)) >>

PricingLines ==
    { TransmissionLine("T1", "N1", "N2", 10, Power(100), TRUE),
      TransmissionLine("T2", "N3", "N2", 10, Power(50), TRUE),
      TransmissionLine("T3", "N2", MissingNode, 10, Power(100), TRUE) }

PricingBids ==
    { NoBids,
      Bids([g \in {"G1"} |-> << BidSegment(0, Power(30), Price(20)),
                               BidSegment(Power(30), Power(100), Price(45)) >>]),
      Bids([g \in {"G1", "G3"} |->
              IF g = "G1" THEN <<>>
              ELSE << BidSegment(0, Power(200), Price(30)) >>]),
      Bids([g \in {"G3"} |-> << BidSegment(0, Power(60), Price(50)),
                               BidSegment(Power(60), Power(140), Price(70)),
                               BidSegment(Power(140), Power(200), Price(100)) >>]) }

PricingNetworks ==
    { [nodes |-> PricingNodes, generators |-> g, loads |-> PricingLoads(d), lines |-> t] :
        g \in DistinctArrangements(PricingGenerators, MaxGens),
        d \in PricingDemands,
        t \in DistinctArrangements(PricingLines, MaxLines) }

InitPricing ==
    /\ network \in PricingNetworks
    /\ bid_segments \in PricingBids
    /\ lmp_results = <<>>
    /\ outcome = NoOutcome
    /\ NoTimeSeries
    /\ NoAdjuster

\* results = run_clearing(network, bid_segments)
CallRunClearing ==
    /\ pc = "idle"
    /\ \E result \in SolverResults :
       \E r \in {run_clearing(network, bid_segments, result)} :
          outcome' = [call |-> "run_clearing", args |-> <<>>,
                      kind |-> r.kind, value |-> r.value, merit |-> r.merit,
                      message |-> "", log |-> r.log, solver |-> result.status]
    /\ UNCHANGED <<network, bid_segments, lmp_results, time_series_vars, adjuster_vars>>

NextPricing == CallRunClearing

SpecPricing == InitPricing /\ [][NextPricing]_vars

----------------------------------------------------------------------------
(* The two classes side by side: _calculate_simple_lmp and
   _build_optimization_problem of an LMPAlgorithm or of an
   LMPAlgorithmWithSegments object built on a network and a bid map drawn
   from the pricing catalogues. *)

\* LMPAlgorithm(network, bids)._calculate_simple_lmp() or
\* LMPAlgorithmWithSegments(network, bids)._calculate_simple_lmp()
CallSimpleLmp ==
    /\ pc = "idle"
    /\ \E cls \in {Base, WithSegments} :
       \E r \in {SimpleLmp(cls, network, OrEmpty(bid_segments))} :
          outcome' = [NoOutcome EXCEPT !.call = "_calculate_simple_lmp", !.args = <<cls>>,
                                       !.kind = r.kind, !.value = r.value,
                                       !.merit = r.merit]
    /\ UNCHANGED <<network, bid_segments, lmp_results, time_series_vars, adjuster_vars>>

\* LMPAlgorithm(network, bids)._build_optimization_problem() or
\* LMPAlgorithmWithSegments(network, bids)._build_optimization_problem()
CallBuildOptimizationProblem ==
    /\ pc = "idle"
    /\ \E cls \in {Base, WithSegments} :
       \E r \in {build_optimization_problem(cls, network, OrEmpty(bid_segments))} :
          outcome' = [NoOutcome EXCEPT !.call = "_build_optimization_problem",
                                       !.args = <<cls>>,
                                       !.kind = r.kind, !.value = r.value]
    /\ UNCHANGED <<network, bid_segments, lmp_results, time_series_vars, adjuster_vars>>

NextEngines == CallSimpleLmp \/ CallBuildOptimizationProblem

SpecEngines == InitPricing /\ [][NextEngines]_vars

----------------------------------------------------------------------------
(* The congestion adjuster on its own, followed line by line:
   _adjust_lmp_for_network_constraints(lmp) applied to price maps and line
   maps drawn from catalogues. *)

AdjusterNodes == <<Node("N1"), Node("N2"), Node("N3")>>

\* gaps of exactly 10, of more than 10 and of less than 10 occur among these
AdjusterPrices == {0, Price(40), Price(50), Price(100)}

\* both directions between N1 and N2, two lines leaving N1, an inactive
\* line, and lines that differ in reactance and thermal limit
AdjusterLines ==
    { TransmissionLine("T1", "N1", "N2", 10, Power(100), TRUE),
      TransmissionLine("T2", "N2", "N1", 25, 0, TRUE),
      TransmissionLine("T3", "N1", "N3", 10, Power(50), TRUE),
      TransmissionLine("T4", "N3", "N2", 10, Power(100), FALSE),
      TransmissionLine("T5", "N2", "N3", 5, Power(1000), TRUE) }

InitAdjuster ==
    /\ \E t \in DistinctArrangements(AdjusterLines, MaxLines) :
          network = [nodes |-> AdjusterNodes, generators |-> <<>>, loads |-> <<>>,
                     lines |-> t]
    /\ bid_segments = NoBids
    /\ lmp_results = <<>>
    /\ outcome = NoOutcome
    /\ NoTimeSeries
    /\ adjuster_lmp \in [Keys(AdjusterNodes) -> AdjusterPrices]
    /\ lmp_at_entry = adjuster_lmp
    /\ lines_visited = 0

\* faulty variant: every line's gap and adjustment are taken from the
\* prices the adjuster was handed, not from the prices as they stand
AdjustStep_FromEntryPrices ==
    /\ outcome.kind = "none"
    /\ lines_visited < Len(network.lines)
    /\ \E line \in {network.lines[lines_visited + 1]} :
          /\ adjuster_lmp' =
                [n \in DOMAIN adjuster_lmp |->
                    Max(adjuster_lmp[n], AdjustForLine(lmp_at_entry, line)[n])]
          /\ lines_visited' = lines_visited + 1
          /\ UNCHANGED outcome
    /\ UNCHANGED <<network, bid_segments, lmp_results, time_series_vars, lmp_at_entry>>

\* one pass of `for line in self.network.lines.values()`
AdjustStep ==
    /\ outcome.kind = "none"
    /\ lines_visited < Len(network.lines)
    /\ \E line \in {network.lines[lines_visited + 1]} :
          IF LineRaisesKeyError(adjuster_lmp, line)
          THEN /\ outcome' = [NoOutcome EXCEPT
                                 !.call = "_adjust_lmp_for_network_constraints",
                                 !.kind = "KeyError"]
               /\ UNCHANGED <<adjuster_lmp, lines_visited>>
          ELSE /\ adjuster_lmp' = AdjustForLine(adjuster_lmp, line)
               /\ lines_visited' = lines_visited + 1
               /\ UNCHANGED outcome
    /\ UNCHANGED <<network, bid_segments, lmp_results, time_series_vars, lmp_at_entry>>

\* the loop is over; the caller returns the map it handed in
AdjusterReturn ==
    /\ outcome.kind = "none"
    /\ lines_visited = Len(network.lines)
    /\ adjuster_lmp # <<>>
    /\ outcome' = [NoOutcome EXCEPT
                      !.call = "_adjust_lmp_for_network_constraints",
                      !.kind = "returned", !.value = adjuster_lmp, !.merit = lmp_at_entry]
    /\ UNCHANGED <<network, bid_segments, lmp_results, time_series_vars, adjuster_vars>>

NextAdjuster ==
    \/ AdjustStep
    \/ AdjusterReturn

SpecAdjuster == InitAdjuster /\ [][NextAdjuster]_vars

----------------------------------------------------------------------------
(* The package's main(): a network is built, cleared for a single period
   through the SpotMarketClearing object or the module-level function, and
   then cleared for 24 hours by run_time_series_clearing(day_ahead_data). *)

\* the members of a catalogue picked by the index set S, in catalogue order
RECURSIVE Pick(_, _, _)
Pick(order, S, i) ==
    IF i > Len(order) THEN <<>>
    ELSE (IF i \in S THEN <<order[i]>> ELSE <<>>) \o Pick(order, S, i + 1)

Selections(order, n) ==
    {Pick(order, S, 1) : S \in {T \in SUBSET (1..Len(order)) : Cardinality(T) <= n}}

DayNodes == <<Node("N1"), Node("N2"), Node("N3")>>

\* a thermal unit, a wind farm and a solar plant bidding at zero, and a
\* hydro unit whose marginal cost is negative
DayGenerators ==
    << Generator("G1", "N1", "thermal", 0, Power(100), Price(30)),
       Generator("G2", "N2", "wind", 0, Power(200), 0),
       Generator("G3", "N3", "solar", 0, Power(100), 0),
       Generator("G4", "N1", "hydro", 0, Power(50), Price(-20)) >>

DayLoads ==
    << Load("L1", "N1", Power(80)), Load("L2", "N2", Power(150)),
       Load("L3", "N3", Power(40)) >>

DayLines ==
    << TransmissionLine("T1", "N1", "N2", 10, Power(100), TRUE),
       TransmissionLine("T2", "N3", "N2", 10, Power(50), TRUE),
       TransmissionLine("T3", "N2", MissingNode, 10, Power(100), TRUE) >>

DayNetworks ==
    { [nodes |-> DayNodes, generators |-> g, loads |-> DayLoads, lines |-> t] :
        g \in Selections(DayGenerators, MaxGens),
        t \in Selections(DayLines, MaxLines) }

\* bid maps for the single-period call: none, a two-tranche bid, and a bid
\* below zero
DayBids ==
    { NoBids,
      Bids([g \in {"G1"} |-> << BidSegment(0, Power(30), Price(20)),
                               BidSegment(Power(30), Power(100), Price(45)) >>]),
      Bids([g \in {"G1"} |-> << BidSegment(0, Power(100), Price(-10)) >>]) }

\* every hour's tranches of one generator replaced by the caller
WithBidSegments(data, gen_id, segments) ==
    IF gen_id \in DOMAIN data.generator_time_series
    THEN [data EXCEPT !.generator_time_series[gen_id].bid_segments =
                          [i \in 1..HoursPerDay |-> segments]]
    ELSE data

\* the day-ahead data a caller hands over: the sample data, the sample data
\* with G1 bidding below zero, or data without any time series
DayAheadChoices(net) ==
    { create_sample_day_ahead_data(net),
      WithBidSegments(create_sample_day_ahead_data(net), "G1",
                      << BidSegment(0, Power(100), Price(-10)) >>),
      DayAheadMarketData(net, <<>>, <<>>) }

InitTS ==
    /\ network \in DayNetworks
    /\ bid_segments \in DayBids
    /\ lmp_results = <<>>
    /\ outcome = NoOutcome
    /\ day_ahead_data \in DayAheadChoices(network)
    /\ hourly_results = <<>>
    /\ hour = 0
    /\ results = <<>>
    /\ pc = "idle"
    /\ previous_run = NoOutcome
    /\ NoAdjuster

\* run_time_series_clearing(day_ahead_data): TimeSeriesLMPAlgorithm.__init__
\* and the entry into calculate_24h_lmp
StartTimeSeries ==
    /\ pc = "idle"
    /\ pc' = "loop"
    /\ hourly_results' = <<>>
    /\ results' = <<>>
    /\ hour' = 0
    /\ outcome' = NoOutcome
    /\ UNCHANGED <<network, bid_segments, lmp_results, day_ahead_data, previous_run,
                   adjuster_vars>>

\* one pass of `for hour in range(24)`; what calculate_lmp raises escapes.
\* The base network is what get_hourly_network leaves of it.
HourStep ==
    /\ pc = "loop"
    /\ hour < HoursPerDay
    /\ \E result \in SolverResults :
       \E r \in {calculate_hour(day_ahead_data, hour, result)} :
          IF r.kind = "returned"
          THEN /\ results' = StoreHour(results, hour, r.value)
               /\ hour' = hour + 1
               /\ UNCHANGED <<outcome, pc>>
          ELSE /\ outcome' = [call |-> "run_time_series_clearing", args |-> <<>>,
                              kind |-> r.kind, value |-> <<>>, merit |-> <<>>,
                              message |-> "", log |-> r.log, solver |-> result.status]
               /\ pc' = "done"
               /\ UNCHANGED <<results, hour>>
    /\ day_ahead_data' =
          [day_ahead_data EXCEPT !.network = BaseAfterSnapshot(day_ahead_data, hour)]
    /\ network' = day_ahead_data'.network
    /\ UNCHANGED <<bid_segments, lmp_results, hourly_results, previous_run, adjuster_vars>>

\* the loop is over: self.hourly_results = results; return results
FinishTimeSeries ==
    /\ pc = "loop"
    /\ hour = HoursPerDay
    /\ hourly_results' = results
    /\ outcome' = [call |-> "run_time_series_clearing", args |-> <<>>, kind |-> "returned",
                   value |-> results, merit |-> <<>>, message |-> "",
                   log |-> <<>>, solver |-> "none"]
    /\ pc' = "done"
    /\ UNCHANGED <<network, bid_segments, lmp_results, day_ahead_data, hour, results,
                   previous_run, adjuster_vars>>

NextTS ==
    \/ RunClearing
    \/ CallRunClearing
    \/ StartTimeSeries
    \/ HourStep
    \/ FinishTimeSeries

SpecTS == InitTS /\ [][NextTS]_vars

----------------------------------------------------------------------------
(* The life of a DayAheadMarketData object: the caller looks up curves and
   derives hourly snapshots for hours of its choice, one call after the
   other, runs the 24-hour clearing, and may run it a second time on the
   same object. *)

\* the hours a caller asks for: one below the day, the day, one above
LookupHours == (0 - 1)..HoursPerDay

DayAheadNetworks ==
    { [nodes |-> DayNodes, generators |-> g, loads |-> DayLoads, lines |-> t] :
        g \in Selections(DayGenerators, MaxGens),
        t \in {<<>>, SubSeq(DayLines, 1, Min(MaxLines, Len(DayLines) - 1)),
               <<DayLines[Len(DayLines)]>>} }

InitDayAhead ==
    /\ network \in DayAheadNetworks
    /\ bid_segments = NoBids
    /\ lmp_results = <<>>
    /\ outcome = NoOutcome
    /\ day_ahead_data \in DayAheadChoices(network)
    /\ hourly_results = <<>>
    /\ hour = 0
    /\ results = <<>>
    /\ pc = "idle"
    /\ previous_run = NoOutcome
    /\ NoAdjuster

\* `if hour < 0 or hour >= 24: raise ValueError(...)`, then the value
RangeChecked(h, value) ==
    IF HourOutOfRange(h) THEN Raised("ValueError") ELSE Returned(value)

\* what a call with these arguments did
Called(call, args, r) ==
    [NoOutcome EXCEPT !.call = call, !.args = args, !.kind = r.kind, !.value = r.value]

\* gen_ts.get_available_capacity(hour)
GetAvailableCapacity ==
    /\ pc # "loop"
    /\ outcome.call = "none"
    /\ \E gen_id \in DOMAIN day_ahead_data.generator_time_series, h \in LookupHours :
          outcome' = Called("get_available_capacity", <<gen_id, h>>,
                            RangeChecked(h, get_available_capacity(
                                day_ahead_data.generator_time_series[gen_id], h)))
    /\ UNCHANGED <<network, bid_segments, lmp_results, time_series_vars, adjuster_vars>>

\* gen_ts.get_bid_segments(hour)
GetBidSegments ==
    /\ pc # "loop"
    /\ outcome.call = "none"
    /\ \E gen_id \in DOMAIN day_ahead_data.generator_time_series, h \in LookupHours :
          outcome' = Called("get_bid_segments", <<gen_id, h>>,
                            RangeChecked(h, get_bid_segments(
                                day_ahead_data.generator_time_series[gen_id], h)))
    /\ UNCHANGED <<network, bid_segments, lmp_results, time_series_vars, adjuster_vars>>

\* load_ts.get_demand(hour)
GetDemand ==
    /\ pc # "loop"
    /\ outcome.call = "none"
    /\ \E load_id \in DOMAIN day_ahead_data.load_time_series, h \in LookupHours :
          outcome' = Called("get_demand", <<load_id, h>>,
                            RangeChecked(h, get_demand(
                                day_ahead_data.load_time_series[load_id], h)))
    /\ UNCHANGED <<network, bid_segments, lmp_results, time_series_vars, adjuster_vars>>

\* day_ahead_data.get_hourly_network(hour): the first curve lookup that
\* raises ends the call, before any entry of the snapshot is replaced
GetHourlyNetwork ==
    /\ pc # "loop"
    /\ outcome.call = "none"
    /\ \E h \in LookupHours :
          IF HourlyNetworkRaises(day_ahead_data, h)
          THEN /\ outcome' = Called("get_hourly_network", <<h>>, Raised("ValueError"))
               /\ UNCHANGED <<network, day_ahead_data>>
          ELSE /\ outcome' = Called("get_hourly_network", <<h>>,
                                    Returned(get_hourly_network(day_ahead_data, h)))
               /\ day_ahead_data' =
                     [day_ahead_data EXCEPT !.network = BaseAfterSnapshot(day_ahead_data, h)]
               /\ network' = day_ahead_data'.network
    /\ UNCHANGED <<bid_segments, lmp_results, hourly_results, hour, results, pc,
                   previous_run, adjuster_vars>>

\* day_ahead_data.get_hourly_bid_data(hour)
GetHourlyBidData ==
    /\ pc # "loop"
    /\ outcome.call = "none"
    /\ \E h \in LookupHours :
          outcome' = Called("get_hourly_bid_data", <<h>>,
                            IF HourlyBidDataRaises(day_ahead_data, h)
                            THEN Raised("ValueError")
                            ELSE Returned(get_hourly_bid_data(day_ahead_data, h)))
    /\ UNCHANGED <<network, bid_segments, lmp_results, time_series_vars, adjuster_vars>>

\* the caller is done with what its last call returned or raised
DiscardResult ==
    /\ pc # "loop"
    /\ outcome.call # "none"
    /\ outcome' = NoOutcome
    /\ UNCHANGED <<network, bid_segments, lmp_results, time_series_vars, adjuster_vars>>

\* a second run_time_series_clearing(day_ahead_data) on the same object,
\* right after the first
RunAgain ==
    /\ pc = "done"
    /\ outcome.call = "run_time_series_clearing"
    /\ previous_run.call = "none"
    /\ previous_run' = outcome
    /\ pc' = "loop"
    /\ hourly_results' = <<>>
    /\ results' = <<>>
    /\ hour' = 0
    /\ outcome' = NoOutcome
    /\ UNCHANGED <<network, bid_segments, lmp_results, day_ahead_data, adjuster_vars>>

NextDayAhead ==
    \/ GetAvailableCapacity
    \/ GetBidSegments
    \/ GetDemand
    \/ GetHourlyNetwork
    \/ GetHourlyBidData
    \/ DiscardResult
    \/ StartTimeSeries
    \/ HourStep
    \/ FinishTimeSeries
    \/ RunAgain

SpecDayAhead == InitDayAhead /\ [][NextDayAhead]_vars

----------------------------------------------------------------------------
(* Properties of the clearing call (checked under Spec) *)

\* C1: the price map a clearing call returns for a network that passed
\* validation has exactly the network's node ids as its keys: no node is
\* missing, no other key appears, whatever the bid map is.
C1_PriceForEveryNode ==
    outcome.kind = "returned" => DOMAIN outcome.value = Keys(network.nodes)

\* a call has returned for a network with a node that has neither generator
\* nor load, with a bid map given
C1_Witness ==
    /\ outcome.kind = "returned"
    /\ ~bid_segments.is_none
    /\ \E n \in Keys(network.nodes) :
          /\ GeneratorsAtNode(network, n) = <<>>
          /\ get_loads_at_node(network, n) = <<>>

\* C2: SpotMarketClearing.run_clearing ends in one of two ways only: it
\* raises the validation error, or it returns a complete node -> price map.
C2_ValidationErrorOrPriceMap ==
    \/ outcome.kind = "none"
    \/ outcome.kind = "ValueError"
    \/ outcome.kind = "returned" /\ DOMAIN outcome.value = Keys(network.nodes)

\* the conditions C3 lists
StructurallyInvalid(net) ==
    \/ net.nodes = <<>>
    \/ net.generators = <<>>
    \/ \E i \in 1..Len(net.generators) : net.generators[i].node_id \notin Keys(net.nodes)
    \/ \E i \in 1..Len(net.loads) : net.loads[i].node_id \notin Keys(net.nodes)

\* C3: the call raises the validation error if and only if the node set is
\* empty, the generator set is empty, or some generator or some load names a
\* node that is not in the node set.
C3_ValidationIffInvalid ==
    outcome.kind # "none" =>
        (outcome.kind = "ValueError" <=> StructurallyInvalid(network))

\* the validation error was raised for a load's node reference alone
C3_Witness ==
    /\ outcome.kind = "ValueError"
    /\ outcome.message = "Load connected to non-existent node"
    /\ network.nodes # <<>>
    /\ network.generators # <<>>

\* C4: when validation fails nothing is computed (formulator, solver and
\* pricing engine are not invoked) and the stored lmp_results keeps its value.
C4_NothingComputedOnInvalid ==
    [][outcome'.kind = "ValueError" =>
          /\ lmp_results' = lmp_results
          /\ outcome'.log = <<"validate">>]_vars

\* validation has failed on an object that holds an earlier call's result
C4_Witness ==
    /\ outcome.kind = "ValueError"
    /\ lmp_results # <<>>

----------------------------------------------------------------------------
(* Properties of the pricing engine (checked under SpecPricing) *)

\* the merit-order prices followed by one pass of the adjuster over the lines
MeritThenOneAdjustment(net, bids) ==
    adjust_lmp_for_network_constraints(MeritOrderPrices(net, OrEmpty(bids)), net.lines)

\* C5: whatever the solver did (success, non-success, exception, and whatever
\* values it reported), calculate_lmp ends as the merit-order prices followed
\* by exactly one pass of the congestion adjuster.
C5_SameForEverySolverOutcome ==
    outcome.kind # "none" =>
        /\ outcome.kind = MeritThenOneAdjustment(network, bid_segments).kind
        /\ outcome.value = MeritThenOneAdjustment(network, bid_segments).value

\* the formulation raised, the fallback returned, and the adjuster changed a price
C5_Witness ==
    /\ outcome.kind = "returned"
    /\ outcome.log = <<"formulate", "price">>
    /\ outcome.value # outcome.merit

\* the node's demand and its supply curve in enumeration order
DemandAt(n) == SumDemand(get_loads_at_node(network, n))
TranchesAt(n) ==
    BuildSupplyCurve(GeneratorsAtNode(network, n), OrEmpty(bid_segments), DemandAt(n))

RECURSIVE CapacityUpTo(_, _)
\* total capacity of the tranches priced <= p
CapacityUpTo(curve, p) ==
    IF curve = <<>> THEN 0
    ELSE (IF Head(curve)[1] <= p THEN Head(curve)[2] ELSE 0) + CapacityUpTo(Tail(curve), p)

TranchePrices(curve) == {curve[i][1] : i \in 1..Len(curve)}
TotalCapacity(curve) == CapacityUpTo(curve, MaxPrice(curve))

SetMin(S) == CHOOSE x \in S : \A y \in S : x <= y
SetMax(S) == CHOOSE x \in S : \A y \in S : x >= y

\* C7: at a node with a generator whose supply curve reaches its demand, the
\* merit-order price is the smallest tranche price p such that the tranches
\* priced <= p hold at least the demand.
C7_FirstTrancheMeetingDemand ==
    outcome.kind # "none" =>
        \A n \in Keys(network.nodes) :
            (GeneratorsAtNode(network, n) # <<>>
             /\ TotalCapacity(TranchesAt(n)) >= DemandAt(n))
            => outcome.merit[n] =
                 SetMin({p \in TranchePrices(TranchesAt(n)) :
                            CapacityUpTo(TranchesAt(n), p) >= DemandAt(n)})

\* a node cleared above its cheapest tranche, from a curve with bid segments
\* that is not in price order as enumerated
C7_Witness ==
    /\ outcome.kind # "none"
    /\ \E n \in Keys(network.nodes) :
          /\ Len(GeneratorsAtNode(network, n)) >= 2
          /\ \E i \in 1..Len(network.generators) :
                HasSegments(OrEmpty(bid_segments), network.generators[i].id)
                /\ network.generators[i].node_id = n
          /\ TotalCapacity(TranchesAt(n)) >= DemandAt(n)
          /\ outcome.merit[n] > SetMin(TranchePrices(TranchesAt(n)))
          /\ TranchesAt(n) # SortByPrice(TranchesAt(n))

\* the generators at n are all unsegmented
Unsegmented(n) ==
    \A i \in 1..Len(network.generators) :
        network.generators[i].node_id = n
        => ~HasSegments(OrEmpty(bid_segments), network.generators[i].id)

RECURSIVE SumMaxPower(_)
SumMaxPower(gens) ==
    IF gens = <<>> THEN 0 ELSE Head(gens).max_power + SumMaxPower(Tail(gens))

\* C8: at a node with a generator whose whole supply curve stays below its
\* demand, the merit-order price is the highest tranche price plus 500; so it
\* is the highest marginal cost plus 500 when the demand exceeds the summed
\* max_power of the node's generators, all unsegmented.
C8_ShortagePrice ==
    outcome.kind # "none" =>
        \A n \in Keys(network.nodes) :
            GeneratorsAtNode(network, n) # <<>> =>
              /\ TotalCapacity(TranchesAt(n)) < DemandAt(n)
                 => outcome.merit[n] = SetMax(TranchePrices(TranchesAt(n))) + Price(500)
              /\ (Unsegmented(n) /\ DemandAt(n) > SumMaxPower(GeneratorsAtNode(network, n)))
                 => outcome.merit[n] =
                      SetMax({g.marginal_cost : g \in Range(GeneratorsAtNode(network, n))})
                      + Price(500)

\* a node with two generators, one of them segmented, short of its demand
C8_Witness ==
    /\ outcome.kind # "none"
    /\ \E n \in Keys(network.nodes) :
          /\ Len(GeneratorsAtNode(network, n)) >= 2
          /\ ~Unsegmented(n)
          /\ TotalCapacity(TranchesAt(n)) < DemandAt(n)

\* total max_power of the generators of gens whose marginal cost is <= c
RECURSIVE MaxPowerUpTo(_, _)
MaxPowerUpTo(gens, c) ==
    IF gens = <<>> THEN 0
    ELSE (IF Head(gens).marginal_cost <= c THEN Head(gens).max_power ELSE 0)
         + MaxPowerUpTo(Tail(gens), c)

\* C9: at a node with unsegmented generators only, whose max_power values
\* together reach the demand, the merit-order price is the marginal cost of
\* the k-th cheapest generator, k >= 1 the least number of cheapest
\* generators whose true max_power values sum to the demand: the cap at the
\* local demand does not change the marginal generator.
C9_MarginalGeneratorByTrueCapacity ==
    outcome.kind # "none" =>
        \A n \in Keys(network.nodes) :
            (GeneratorsAtNode(network, n) # <<>>
             /\ Unsegmented(n)
             /\ SumMaxPower(GeneratorsAtNode(network, n)) >= DemandAt(n))
            => outcome.merit[n] =
                 SetMin({g.marginal_cost : g \in
                           {h \in Range(GeneratorsAtNode(network, n)) :
                              MaxPowerUpTo(GeneratorsAtNode(network, n), h.marginal_cost)
                                 >= DemandAt(n)}})

\* two unsegmented generators, the cap binds on one (max_power above the
\* demand), and the second cheapest is marginal
C9_Witness ==
    /\ outcome.kind # "none"
    /\ \E n \in Keys(network.nodes) :
          /\ Len(GeneratorsAtNode(network, n)) = 2
          /\ Unsegmented(n)
          /\ \E g \in Range(GeneratorsAtNode(network, n)) : g.max_power > DemandAt(n)
          /\ SumMaxPower(GeneratorsAtNode(network, n)) >= DemandAt(n)
          /\ outcome.merit[n] >
               SetMin({g.marginal_cost : g \in Range(GeneratorsAtNode(network, n))})

\* the nodes that are an endpoint of an active line whose endpoint prices,
\* when the adjuster comes to it, differ by more than 10
RECURSIVE TouchedByTriggeringLine(_, _)
TouchedByTriggeringLine(lmp, lines) ==
    IF lines = <<>> \/ LineRaisesKeyError(lmp, Head(lines)) THEN {}
    ELSE (IF Head(lines).is_active
             /\ Abs(lmp[Head(lines).from_node] - lmp[Head(lines).to_node]) > Price(10)
          THEN {Head(lines).from_node, Head(lines).to_node} ELSE {})
         \cup TouchedByTriggeringLine(AdjustForLine(lmp, Head(lines)), Tail(lines))

C10_Example ==
    [nodes |-> <<Node("N1"), Node("N2"), Node("N3")>>,
     generators |-> << Generator("G1", "N1", "thermal", 0, Power(100), Price(30)),
                       Generator("G2", "N2", "thermal", 0, Power(200), Price(50)) >>,
     loads |-> << Load("L1", "N1", Power(80)), Load("L2", "N2", Power(150)),
                  Load("L3", "N3", Power(70)) >>,
     lines |-> <<>>]

\* C10: a node without a generator gets the merit-order price 1000 whatever
\* its demand and the bid map; its returned price is 1000 when no active line
\* with a price gap above 10 touches it.  In the three-node example the
\* returned prices are N1 = 30, N2 = 50, N3 = 1000.
C10_NoGeneratorPenalty ==
    outcome.kind # "none" =>
        /\ \A n \in Keys(network.nodes) :
              GeneratorsAtNode(network, n) = <<>> =>
                /\ outcome.merit[n] = Price(1000)
                /\ (outcome.kind = "returned"
                    /\ n \notin TouchedByTriggeringLine(outcome.merit, network.lines))
                   => outcome.value[n] = Price(1000)
        /\ (network = C10_Example /\ bid_segments = NoBids)
           => /\ outcome.kind = "returned"
              /\ outcome.value = [n \in {"N1", "N2", "N3"} |->
                                    IF n = "N1" THEN Price(30)
                                    ELSE IF n = "N2" THEN Price(50) ELSE Price(1000)]

\* the three-node example has been cleared
C10_Witness ==
    /\ outcome.kind = "returned"
    /\ network = C10_Example
    /\ bid_segments = NoBids

----------------------------------------------------------------------------
(* Properties of the single-period and the 24-hour clearing (checked under
   SpecTS) *)

NonNegativePrices(lmp) == \A n \in DOMAIN lmp : lmp[n] >= 0

NonNegativeHours(map) == \A h \in DOMAIN map : NonNegativePrices(map[h])

NonNegativeCosts(net) ==
    \A i \in 1..Len(net.generators) : net.generators[i].marginal_cost >= 0

NonNegativeBidPrices(bid_map) ==
    \A g \in DOMAIN bid_map : \A i \in 1..Len(bid_map[g]) : bid_map[g][i].price >= 0

\* the network is valid and no marginal cost and no tranche price handed to
\* the single-period call is below zero
SinglePeriodInScope ==
    /\ validate_network(network) = "ok"
    /\ NonNegativeCosts(network)
    /\ NonNegativeBidPrices(OrEmpty(bid_segments))

\* the same for the day-ahead data: its base network, and every tranche of
\* every hour of every generator's time series
DayAheadInScope ==
    /\ validate_network(day_ahead_data.network) = "ok"
    /\ NonNegativeCosts(day_ahead_data.network)
    /\ \A g \in DOMAIN day_ahead_data.generator_time_series :
          \A i \in 1..HoursPerDay :
             \A k \in 1..Len(day_ahead_data.generator_time_series[g].bid_segments[i]) :
                day_ahead_data.generator_time_series[g].bid_segments[i][k].price >= 0

\* C6: for a valid network whose marginal costs and tranche prices are all
\* >= 0, no price is below zero: not in the map run_clearing returns (or
\* SpotMarketClearing stores), and not in any hour of the map
\* run_time_series_clearing builds, stores and returns.
C6_PricesNonNegative ==
    /\ SinglePeriodInScope =>
          /\ NonNegativePrices(lmp_results)
          /\ (outcome.kind = "returned"
                 /\ outcome.call \in {"run_clearing", "SpotMarketClearing.run_clearing"})
              => NonNegativePrices(outcome.value)
    /\ DayAheadInScope =>
          /\ NonNegativeHours(results)
          /\ NonNegativeHours(hourly_results)
          /\ (outcome.kind = "returned" /\ outcome.call = "run_time_series_clearing")
              => NonNegativeHours(outcome.value)

\* both calls have returned for inputs in scope; the single-period map has a
\* zero price at the receiving end of a line that triggered, and so does
\* some hour of the 24-hour map
C6_Witness ==
    /\ SinglePeriodInScope
    /\ DayAheadInScope
    /\ \E i \in 1..Len(network.lines) :
          /\ network.lines[i].to_node \in DOMAIN lmp_results
          /\ network.lines[i].from_node \in DOMAIN lmp_results
          /\ lmp_results[network.lines[i].to_node] = 0
          /\ lmp_results[network.lines[i].from_node] > Price(PriceDiffThreshold)
    /\ outcome.kind = "returned"
    /\ outcome.call = "run_time_series_clearing"
    /\ DOMAIN outcome.value = 0..(HoursPerDay - 1)
    /\ hourly_results = outcome.value
    /\ \E h \in DOMAIN hourly_results :
       \E i \in 1..Len(network.lines) :
          /\ hourly_results[h][network.lines[i].to_node] = 0
          /\ hourly_results[h][network.lines[i].from_node] > Price(PriceDiffThreshold)

----------------------------------------------------------------------------
(* Properties of the congestion adjuster (checked under SpecAdjuster) *)

\* the first line of the line map and the prices of its two ends on entry
FirstLine == network.lines[1]
GapAtEntry(line) == Abs(lmp_at_entry[line.from_node] - lmp_at_entry[line.to_node])
LowerEnd(line) ==
    IF lmp_at_entry[line.from_node] < lmp_at_entry[line.to_node]
    THEN line.from_node ELSE line.to_node
HigherEnd(line) ==
    IF lmp_at_entry[line.from_node] < lmp_at_entry[line.to_node]
    THEN line.to_node ELSE line.from_node

\* C11: one active line whose end prices differ by more than 10 moves both
\* ends by half the congestion cost gap x 0.1: the lower-priced end up, the
\* higher-priced end down, whichever of them is the from_node (100 and 50
\* become 97.5 and 52.5).
C11_SymmetricAdjustment ==
    (/\ Len(network.lines) = 1
     /\ lines_visited = 1
     /\ FirstLine.is_active
     /\ GapAtEntry(FirstLine) > Price(10))
    => /\ adjuster_lmp[LowerEnd(FirstLine)] =
             lmp_at_entry[LowerEnd(FirstLine)] + (GapAtEntry(FirstLine) \div 10) \div 2
       /\ adjuster_lmp[HigherEnd(FirstLine)] =
             lmp_at_entry[HigherEnd(FirstLine)] - (GapAtEntry(FirstLine) \div 10) \div 2

\* C12: no step of the adjuster lowers a price: every line leaves every
\* node's price at or above what it was before that line, so every price is
\* at or above the price on entry (the merit-order price) throughout.
C12_NeverDecreases ==
    /\ [](\A n \in DOMAIN adjuster_lmp : adjuster_lmp[n] >= lmp_at_entry[n])
    /\ [][\A n \in DOMAIN adjuster_lmp : adjuster_lmp'[n] >= adjuster_lmp[n]]_vars

\* two lines were processed; one raised a price, and one triggered with the
\* higher price at its to_node and with the higher price at its from_node
C12_Witness ==
    /\ lines_visited = 2
    /\ \E n \in DOMAIN adjuster_lmp : adjuster_lmp[n] > lmp_at_entry[n]
    /\ \E i \in 1..2 :
          /\ network.lines[i].is_active
          /\ lmp_at_entry[network.lines[i].to_node]
               > lmp_at_entry[network.lines[i].from_node] + Price(10)
    /\ \E i \in 1..2 :
          /\ network.lines[i].is_active
          /\ lmp_at_entry[network.lines[i].from_node]
               > lmp_at_entry[network.lines[i].to_node] + Price(10)

\* the line the adjuster processes next, and the gap between its end prices
\* as they stand now
NextLine == network.lines[lines_visited + 1]
GapNow(line) == Abs(adjuster_lmp[line.from_node] - adjuster_lmp[line.to_node])
Triggers(line) == line.is_active /\ GapNow(line) > Price(10)

\* the line map with every reactance and thermal limit replaced
WithoutLimits(lines) ==
    [i \in 1..Len(lines) |-> [lines[i] EXCEPT !.reactance = 0, !.thermal_limit = 0]]

\* C19: prices change only through active lines whose end prices differ by
\* more than 10.  A line that is inactive or whose gap is 10 or less leaves
\* the whole map as it is; a triggering line changes no node but its two
\* ends; a node that no triggering line touched has the price it had on
\* entry; and the result is the same with every reactance and thermal limit
\* replaced.
C19_OnlyTriggeringLinesChangePrices ==
    /\ [][lines_visited' = lines_visited + 1 =>
            /\ ~Triggers(NextLine) => adjuster_lmp' = adjuster_lmp
            /\ \A n \in DOMAIN adjuster_lmp :
                  n \notin {NextLine.from_node, NextLine.to_node}
                  => adjuster_lmp'[n] = adjuster_lmp[n]]_vars
    /\ [](\A n \in DOMAIN adjuster_lmp :
            n \notin TouchedByTriggeringLine(lmp_at_entry,
                                             SubSeq(network.lines, 1, lines_visited))
            => adjuster_lmp[n] = lmp_at_entry[n])
    /\ [](outcome.kind = "returned" =>
            outcome.value =
              adjust_lmp_for_network_constraints(lmp_at_entry,
                                                 WithoutLimits(network.lines)).value)

\* an active line with a gap of exactly 10 and an inactive line with a gap
\* above 10 were processed and no price changed
C19_Witness ==
    /\ outcome.kind = "returned"
    /\ lines_visited = 2
    /\ \E i \in 1..2 : network.lines[i].is_active /\ GapAtEntry(network.lines[i]) = Price(10)
    /\ \E i \in 1..2 : ~network.lines[i].is_active /\ GapAtEntry(network.lines[i]) > Price(10)
    /\ outcome.value = lmp_at_entry

\* C20: the adjuster is one pass over the line map in insertion order, one
\* line per step.  Whether the k-th line triggers is decided by the gap
\* between its end prices as lines 1..k-1 left them, and the amount it
\* applies is half of that gap x 0.1; so the adjustments at a node that
\* several lines touch add up.
C20_SinglePassOverCurrentPrices ==
    /\ [](lines_visited <= Len(network.lines))
    /\ [](outcome.kind = "returned" => lines_visited = Len(network.lines))
    /\ [][adjuster_lmp' # adjuster_lmp \/ lines_visited' # lines_visited =>
            /\ lines_visited' = lines_visited + 1
            /\ adjuster_lmp' # adjuster_lmp <=> Triggers(NextLine)
            /\ Triggers(NextLine) =>
                 \E n \in {NextLine.from_node, NextLine.to_node} :
                    Abs(adjuster_lmp'[n] - adjuster_lmp[n])
                       = (GapNow(NextLine) \div 10) \div 2]_vars

\* two lines leaving the same node both triggered; the second one's gap was
\* no longer the gap on entry, and the node moved by more than either line
\* alone would have moved it from the prices on entry
C20_Witness ==
    /\ outcome.kind = "returned"
    /\ lines_visited = 2
    /\ network.lines[1].from_node = network.lines[2].from_node
    /\ GapAtEntry(network.lines[1]) > Price(10)
    /\ GapAtEntry(network.lines[2]) > Price(10)
    /\ adjuster_lmp[network.lines[1].from_node]
         > lmp_at_entry[network.lines[1].from_node]
           + (GapAtEntry(network.lines[1]) \div 10) \div 2
    /\ adjuster_lmp[network.lines[1].from_node]
         > lmp_at_entry[network.lines[1].from_node]
           + (GapAtEntry(network.lines[2]) \div 10) \div 2


----------------------------------------------------------------------------
(* The 500 price of the single-period engine (checked under SpecPricing) *)

\* C18: in the single-period engine a node with at least one generator and a
\* total demand of zero gets the merit-order price 500, before adjustment.
C18_ZeroDemandPrice ==
    outcome.kind # "none" =>
        \A n \in Keys(network.nodes) :
            (GeneratorsAtNode(network, n) # <<>> /\ DemandAt(n) = 0)
            => outcome.merit[n] = Price(NoSupplyBasePrice)


----------------------------------------------------------------------------
(* Properties of the 24-hour clearing and of the hourly snapshots
   (checked under SpecDayAhead) *)

\* both runs of run_time_series_clearing on the object are over
TwoRunsOver ==
    /\ pc = "done"
    /\ previous_run.call = "run_time_series_clearing"
    /\ outcome.call = "run_time_series_clearing"

\* C13: run_time_series_clearing is deterministic: whatever the solver does
\* in any hour, a second run on the same DayAheadMarketData object ends as
\* the first did and returns the same map (same hours, same nodes, same
\* prices).
C13_SecondRunSameAsFirst ==
    TwoRunsOver =>
        /\ outcome.kind = previous_run.kind
        /\ outcome.value = previous_run.value

\* two completed runs with a price raised by the congestion adjuster
C13_Witness ==
    /\ TwoRunsOver
    /\ outcome.kind = "returned"
    /\ DOMAIN outcome.value = 0..(HoursPerDay - 1)
    /\ previous_run.kind = "returned"
    /\ \E h \in DOMAIN outcome.value :
       \E i \in 1..Len(network.lines) :
          outcome.value[h][network.lines[i].from_node] >
             MeritOrderPricesWithSegments(get_hourly_network(day_ahead_data, h),
                                          get_hourly_bid_data(day_ahead_data, h))
                [network.lines[i].from_node]


\* C14: run_time_series_clearing returns a map whose keys are exactly the
\* hours 0..23, each hour's map has exactly the base network's node ids as
\* keys; inside the loop the hours written so far are 0..hour-1, and a pass
\* writes the entry of the next hour only, once, leaving the earlier entries
\* as they are.
C14_HourKeysAndNodeKeys ==
    /\ [](/\ (outcome.call = "run_time_series_clearing" /\ outcome.kind = "returned")
             => /\ DOMAIN outcome.value = 0..(HoursPerDay - 1)
                /\ \A h \in DOMAIN outcome.value :
                      DOMAIN outcome.value[h] = Keys(network.nodes)
          /\ pc = "loop" => DOMAIN results = 0..(hour - 1))
    /\ [][(pc = "loop" /\ results' # results)
          => /\ hour \notin DOMAIN results
             /\ DOMAIN results' = DOMAIN results \cup {hour}
             /\ \A k \in DOMAIN results : results'[k] = results[k]
             /\ hour' = hour + 1]_vars

\* a completed run over a network with generators, loads and lines
C14_Witness ==
    /\ outcome.call = "run_time_series_clearing"
    /\ outcome.kind = "returned"
    /\ outcome.value # <<>>
    /\ network.generators # <<>>
    /\ network.lines # <<>>
    /\ hourly_results = outcome.value


\* C15: deriving hourly snapshots never mutates the base: no call of
\* get_hourly_network or get_hourly_bid_data, no curve lookup and no step of
\* run_time_series_clearing changes the base network's node, generator, load
\* or line map (so no base generator's max_power and no base load's demand),
\* although the snapshot's generator and load entries are replaced.
C15_BaseNeverMutated ==
    [][/\ network' = network
       /\ day_ahead_data'.network = day_ahead_data.network]_vars

\* after a full run, a snapshot whose generator and load entries were
\* replaced by entries that differ from the base network's
C15_Witness ==
    /\ pc = "done"
    /\ hourly_results # <<>>
    /\ outcome.call = "get_hourly_network"
    /\ outcome.kind = "returned"
    /\ \E i \in 1..Len(network.generators) :
          outcome.value.generators[i].max_power < network.generators[i].max_power
    /\ \E i \in 1..Len(network.loads) :
          outcome.value.loads[i].demand < network.loads[i].demand
    /\ day_ahead_data.network = network


\* a snapshot was derived from data built by create_sample_day_ahead_data
SampleSnapshot ==
    /\ outcome.call = "get_hourly_network"
    /\ outcome.args[1] \in 0..(HoursPerDay - 1)
    /\ day_ahead_data = create_sample_day_ahead_data(network)

\* the factors of hour h in the curves of the sample data
RenewableFactorOf(gen_id, h) ==
    AtHour(day_ahead_data.generator_time_series[gen_id].time_slots, h).renewable_factor
LoadFactorOf(load_id, h) ==
    AtHour(day_ahead_data.load_time_series[load_id].time_slots, h).load_factor

\* C16: for data built by create_sample_day_ahead_data, the snapshot of every
\* hour 0..23 exists; in it a wind or solar generator's max_power is the base
\* max_power times the hour's renewable factor and at most the base
\* max_power, a thermal or hydro generator's max_power is the base max_power,
\* every load's demand is the base demand times the hour's load factor, and
\* every other generator and load field, the node map and the line map are
\* the base network's.  Factors are in 1/FactorScale.
C16_SampleSnapshotValues ==
    SampleSnapshot =>
        /\ outcome.kind = "returned"
        /\ outcome.value.nodes = network.nodes
        /\ outcome.value.lines = network.lines
        /\ Len(outcome.value.generators) = Len(network.generators)
        /\ Len(outcome.value.loads) = Len(network.loads)
        /\ \A i \in 1..Len(network.generators) :
              LET base == network.generators[i]
                  snap == outcome.value.generators[i]
              IN  /\ snap = [base EXCEPT !.max_power = snap.max_power]
                  /\ base.generator_type \in {"wind", "solar"}
                     => /\ snap.max_power * FactorScale =
                              base.max_power * RenewableFactorOf(base.id, outcome.args[1])
                        /\ snap.max_power <= base.max_power
                  /\ base.generator_type \in {"thermal", "hydro"}
                     => snap.max_power = base.max_power
        /\ \A i \in 1..Len(network.loads) :
              LET base == network.loads[i]
                  snap == outcome.value.loads[i]
              IN  /\ snap = [base EXCEPT !.demand = snap.demand]
                  /\ snap.demand * FactorScale =
                        base.demand * LoadFactorOf(base.id, outcome.args[1])

\* the snapshot of a midday hour with a solar plant below its base capacity,
\* a hydro unit and loads below their base demand
C16_Witness ==
    /\ SampleSnapshot
    /\ outcome.kind = "returned"
    /\ outcome.args[1] = 12
    /\ \E i \in 1..Len(network.generators) :
          /\ network.generators[i].generator_type = "solar"
          /\ outcome.value.generators[i].max_power < network.generators[i].max_power
          /\ outcome.value.generators[i].max_power > 0
    /\ \E i \in 1..Len(network.generators) :
          network.generators[i].generator_type = "hydro"
    /\ \A i \in 1..Len(network.loads) :
          outcome.value.loads[i].demand < network.loads[i].demand
    /\ network.lines # <<>>


\* the call just made is one of the three curve lookups
CurveLookupMade ==
    outcome.call \in {"get_available_capacity", "get_bid_segments", "get_demand"}

\* get_hourly_network(h) makes at least one curve lookup
SnapshotLooksUp ==
    \/ \E gen_id \in DOMAIN day_ahead_data.generator_time_series :
          gen_id \in Keys(day_ahead_data.network.generators)
    \/ \E load_id \in DOMAIN day_ahead_data.load_time_series :
          load_id \in Keys(day_ahead_data.network.loads)

\* C17: get_available_capacity, get_bid_segments and get_demand raise
\* ValueError, returning nothing, for every hour below 0 or above 23, whatever
\* the generator's type, and return a value for every hour 0..23; when
\* get_hourly_network or get_hourly_bid_data makes a lookup for such an hour
\* the error leaves the call.
C17_OutOfRangeHourRaises ==
    /\ CurveLookupMade =>
          IF outcome.args[2] < 0 \/ outcome.args[2] >= 24
          THEN outcome.kind = "ValueError" /\ outcome.value = <<>>
          ELSE outcome.kind = "returned"
    /\ (/\ outcome.call = "get_hourly_network"
        /\ outcome.args[1] < 0 \/ outcome.args[1] >= 24
        /\ SnapshotLooksUp)
       => outcome.kind = "ValueError"
    /\ (/\ outcome.call = "get_hourly_bid_data"
        /\ outcome.args[1] < 0 \/ outcome.args[1] >= 24
        /\ DOMAIN day_ahead_data.generator_time_series # {})
       => outcome.kind = "ValueError"

\* a wind farm's bid segments asked for the hour before the day, with a
\* hydro unit in the network as well
C17_Witness ==
    /\ outcome.call = "get_bid_segments"
    /\ outcome.args[2] < 0
    /\ outcome.kind = "ValueError"
    /\ day_ahead_data.generator_time_series[outcome.args[1]].original_generator.generator_type
          = "wind"
    /\ \E i \in 1..Len(network.generators) :
          network.generators[i].generator_type = "hydro"


----------------------------------------------------------------------------
(* What the congestion adjuster does to the two ends of a line
   (checked under SpecAdjuster) *)

\* the from_nodes of the active lines among the first k lines
ActiveFromNodes(k) ==
    {network.lines[i].from_node : i \in {j \in 1..k : network.lines[j].is_active}}

\* C28: in the congestion adjuster only the from_node of a line changes
\* price.  A step for an active line whose gap is above 10 raises the
\* from_node by exactly gap x 0.05 (a twentieth of the gap), whether it is
\* the higher or the lower end, and leaves the to_node as it is; any other
\* step changes nothing; so a node that is not the from_node of a processed
\* active line has the price it had on entry.
C28_OnlyFromNodeRises ==
    /\ [][lines_visited' = lines_visited + 1 =>
            /\ \A n \in DOMAIN adjuster_lmp :
                  adjuster_lmp'[n] # adjuster_lmp[n]
                  => n = NextLine.from_node /\ Triggers(NextLine)
            /\ Triggers(NextLine) =>
                  /\ (adjuster_lmp'[NextLine.from_node] - adjuster_lmp[NextLine.from_node]) * 20
                        = GapNow(NextLine)
                  /\ adjuster_lmp'[NextLine.to_node] = adjuster_lmp[NextLine.to_node]]_vars
    /\ [](\A n \in DOMAIN adjuster_lmp :
            n \notin ActiveFromNodes(lines_visited) => adjuster_lmp[n] = lmp_at_entry[n])

\* two lines triggered, one leaving the higher-priced end and one leaving
\* the lower-priced end; both from_nodes rose
C28_Witness ==
    /\ outcome.kind = "returned"
    /\ lines_visited = 2
    /\ GapAtEntry(network.lines[1]) > Price(10)
    /\ lmp_at_entry[network.lines[1].from_node] > lmp_at_entry[network.lines[1].to_node]
    /\ lmp_at_entry[network.lines[2].from_node] < lmp_at_entry[network.lines[2].to_node]
    /\ adjuster_lmp[network.lines[1].from_node] > lmp_at_entry[network.lines[1].from_node]
    /\ adjuster_lmp[network.lines[2].from_node] > lmp_at_entry[network.lines[2].from_node]


----------------------------------------------------------------------------
(* Each node clears against its own generation (checked under SpecPricing) *)

\* the network with everything that is not located at node n taken away:
\* the other nodes' generators and loads, and all lines
OnlyAt(net, n) ==
    [nodes |-> net.nodes,
     generators |-> SelectSeq(net.generators, LAMBDA gen : gen.node_id = n),
     loads |-> SelectSeq(net.loads, LAMBDA load : load.node_id = n),
     lines |-> <<>>]

\* the bid map with the segments of the generators located elsewhere taken away
BidsAt(net, bid_map, n) ==
    [gen_id \in {g \in DOMAIN bid_map :
                   \E i \in 1..Len(net.generators) :
                      net.generators[i].id = g /\ net.generators[i].node_id = n} |->
        bid_map[gen_id]]

NoActiveLine(net) == \A i \in 1..Len(net.lines) : ~net.lines[i].is_active

\* C21: the merit-order price of a node depends only on the generators, bid
\* segments and loads located at that node: it is the price the node gets in
\* the network stripped of everything located elsewhere, so two networks that
\* agree at the node give it the same price; without an active line the
\* returned price is that price as well.
C21_NodePriceIsLocal ==
    outcome.kind = "returned" =>
        \A n \in Keys(network.nodes) :
            /\ outcome.merit[n] =
                  MeritOrderPrices(OnlyAt(network, n),
                                   BidsAt(network, OrEmpty(bid_segments), n))[n]
            /\ NoActiveLine(network) => outcome.value[n] = outcome.merit[n]

\* a node with a generator and a load, in a network whose other nodes have
\* generators with segments, loads and a deficit
C21_Witness ==
    /\ outcome.kind = "returned"
    /\ NoActiveLine(network)
    /\ \E n \in Keys(network.nodes), m \in Keys(network.nodes) :
          /\ n # m
          /\ \E i \in 1..Len(network.generators) : network.generators[i].node_id = n
          /\ \E i \in 1..Len(network.loads) :
                network.loads[i].node_id = n /\ network.loads[i].demand > 0
          /\ \E i \in 1..Len(network.generators) :
                /\ network.generators[i].node_id = m
                /\ HasSegments(OrEmpty(bid_segments), network.generators[i].id)
          /\ outcome.merit[m] # outcome.merit[n]


----------------------------------------------------------------------------
(* The two pricing engines compared (checked under SpecEngines) *)

\* a call of _calculate_simple_lmp of either class was made
SimpleLmpCalled == outcome.call = "_calculate_simple_lmp"

\* C29: in both pricing engines a node with at least one generator has a
\* supply curve of at least one tranche, also when a generator has nothing
\* to offer, so the prices 800 and 500 of the empty-curve branches never
\* come out: a node's merit-order price is 1000 when it has no generator,
\* and otherwise a tranche price of its curve or its highest tranche price
\* plus 500.
C29_NoSupplyPricesUnreachable ==
    SimpleLmpCalled =>
        \A n \in DOMAIN outcome.merit :
            IF \A i \in 1..Len(network.generators) : network.generators[i].node_id # n
            THEN outcome.merit[n] = Price(1000)
            ELSE /\ TranchesAt(n) # <<>>
                 /\ outcome.merit[n] \in
                       TranchePrices(TranchesAt(n))
                       \cup {SetMax(TranchePrices(TranchesAt(n))) + Price(500)}
                 /\ outcome.merit[n] \notin {Price(800), Price(500)}

\* the time-series engine priced a node whose only generator has no capacity
\* and no segments
C29_Witness ==
    /\ SimpleLmpCalled
    /\ outcome.args[1] = WithSegments
    /\ \E n \in DOMAIN outcome.merit :
          /\ \E i \in 1..Len(network.generators) : network.generators[i].node_id = n
          /\ \A i \in 1..Len(network.generators) :
                network.generators[i].node_id = n
                => /\ network.generators[i].max_power = 0
                   /\ ~HasSegments(OrEmpty(bid_segments), network.generators[i].id)
          /\ DemandAt(n) > 0
          /\ outcome.merit[n] = network.generators[1].marginal_cost + Price(500)

\* the other class's _calculate_simple_lmp on the same network and bid map
OtherEngine ==
    SimpleLmp(IF outcome.args[1] = Base THEN WithSegments ELSE Base,
              network, OrEmpty(bid_segments))

\* C30: LMPAlgorithm._calculate_simple_lmp and
\* LMPAlgorithmWithSegments._calculate_simple_lmp end the same way and return
\* the same price map on every network and bid map.
C30_EnginesAgree ==
    SimpleLmpCalled =>
        /\ outcome.kind = OtherEngine.kind
        /\ outcome.value = OtherEngine.value
        /\ outcome.merit = OtherEngine.merit

\* the single-period engine returned an adjusted map for a network with a
\* zero-demand node that has a generator and a node without generators
C30_Witness ==
    /\ SimpleLmpCalled
    /\ outcome.args[1] = Base
    /\ outcome.kind = "returned"
    /\ \E n \in DOMAIN outcome.merit :
          /\ GeneratorsAtNode(network, n) # <<>>
          /\ DemandAt(n) = 0
    /\ \E n \in DOMAIN outcome.merit : GeneratorsAtNode(network, n) = <<>>
    /\ outcome.value # outcome.merit


----------------------------------------------------------------------------
(* The hours of the 24-hour run (checked under SpecDayAhead) *)

\* the single-hour pipeline run alone on the snapshot and the bid data of
\* hour h, for one behaviour of the solver
HourAlone(h, result) ==
    calculate_lmp(WithSegments, get_hourly_network(day_ahead_data, h),
                  get_hourly_bid_data(day_ahead_data, h), result)

\* the hour-keyed map is what each hour gives on its own
EachHourAlone(map) ==
    \A h \in DOMAIN map :
    \A result \in SolverResults :
        /\ HourAlone(h, result).kind = "returned"
        /\ HourAlone(h, result).value = map[h]

----------------------------------------------------------------------------
(* The bid segments of the sample data (checked under SpecDayAhead) *)

\* the stored segment lists of generator gen_id, one per hour
StoredSegments(gen_id) == day_ahead_data.generator_time_series[gen_id].bid_segments

\* C23: create_sample_day_ahead_data stores, for every thermal or hydro
\* generator and each of the 24 hours, exactly three segments [0, 0.3 m],
\* [0.3 m, 0.7 m], [0.7 m, m] (m the generator's max_power) priced
\* marginal_cost, marginal_cost + 20 and marginal_cost + 50: contiguous,
\* capacities adding up to m, prices not decreasing, the same list for all
\* hours; for a wind or solar generator it stores an empty list for every
\* hour.
C23_SampleBidSegments ==
    day_ahead_data = create_sample_day_ahead_data(network) =>
        \A i \in 1..Len(network.generators) :
            LET gen == network.generators[i]
                stored == StoredSegments(gen.id)
            IN  /\ Len(stored) = 24
                /\ \A k \in 1..Len(stored) : stored[k] = stored[1]
                /\ gen.generator_type \in {"wind", "solar"} => stored[1] = <<>>
                /\ gen.generator_type \in {"thermal", "hydro"} =>
                      /\ Len(stored[1]) = 3
                      /\ stored[1][1].start_power = 0
                      /\ stored[1][1].end_power * 10 = gen.max_power * 3
                      /\ stored[1][2].start_power = stored[1][1].end_power
                      /\ stored[1][2].end_power * 10 = gen.max_power * 7
                      /\ stored[1][3].start_power = stored[1][2].end_power
                      /\ stored[1][3].end_power = gen.max_power
                      /\ capacity(stored[1][1]) + capacity(stored[1][2])
                            + capacity(stored[1][3]) = gen.max_power
                      /\ stored[1][1].price = gen.marginal_cost
                      /\ stored[1][2].price = gen.marginal_cost + Price(20)
                      /\ stored[1][3].price = gen.marginal_cost + Price(50)
                      /\ stored[1][1].price <= stored[1][2].price
                      /\ stored[1][2].price <= stored[1][3].price

\* sample data for a network with a hydro unit and a wind farm, read back by
\* get_bid_segments for the hydro unit
C23_Witness ==
    /\ day_ahead_data = create_sample_day_ahead_data(network)
    /\ \E i \in 1..Len(network.generators) : network.generators[i].generator_type = "wind"
    /\ outcome.call = "get_bid_segments"
    /\ outcome.kind = "returned"
    /\ Len(outcome.value) = 3
    /\ day_ahead_data.generator_time_series[outcome.args[1]].original_generator.generator_type
          = "hydro"


----------------------------------------------------------------------------
(* The formulated problem (checked under SpecEngines) *)

\* _build_optimization_problem of either class returned a problem
ProblemBuilt ==
    outcome.call = "_build_optimization_problem" /\ outcome.kind = "returned"

\* the segment list the i-th generator of the map bids with (empty: none)
SegmentsOf(i) ==
    IF network.generators[i].id \in DOMAIN OrEmpty(bid_segments)
    THEN OrEmpty(bid_segments)[network.generators[i].id]
    ELSE <<>>

\* how many decision variables the i-th generator has, and how many the
\* generators before it have together
VarCount(i) == IF SegmentsOf(i) # <<>> THEN Len(SegmentsOf(i)) ELSE 1
VarsBefore(i) == SumOf([j \in 1..(i - 1) |-> VarCount(j)])

\* the row of the node where the i-th generator is located
RowOf(i) == CHOOSE r \in 1..Len(network.nodes) :
               network.nodes[r].id = network.generators[i].node_id

\* C24: the problem has one decision variable per bid segment of a generator
\* with a non-empty segment list and one variable for any other generator, in
\* generator-map order; the objective vector, the bounds list and the columns
\* of the equality matrix follow this one enumeration: a segment variable has
\* the segment's price and the bounds (0, capacity), a whole-generator
\* variable has the marginal cost and the bounds (min_power, max_power), and
\* each has the coefficient 1 in the row of its generator's node.
C24_OneEnumerationOfVariables ==
    ProblemBuilt =>
        LET total == VarsBefore(Len(network.generators) + 1)
        IN  /\ Len(outcome.value.c) = total
            /\ Len(outcome.value.bounds) = total
            /\ \A r \in 1..Len(outcome.value.A_eq) : Len(outcome.value.A_eq[r]) = total
            /\ \A i \in 1..Len(network.generators) :
               \A k \in 1..VarCount(i) :
                  LET gen == network.generators[i]
                      v == VarsBefore(i) + k
                  IN  /\ outcome.value.A_eq[RowOf(i)][v] = 1
                      /\ IF SegmentsOf(i) # <<>>
                         THEN /\ outcome.value.c[v] = SegmentsOf(i)[k].price
                              /\ outcome.value.bounds[v] =
                                    <<0, SegmentsOf(i)[k].end_power
                                         - SegmentsOf(i)[k].start_power>>
                         ELSE /\ outcome.value.c[v] = gen.marginal_cost
                              /\ outcome.value.bounds[v] = <<gen.min_power, gen.max_power>>

\* the time-series formulator's problem for a generator mapped to an empty
\* segment list followed by a generator with segments
C24_Witness ==
    /\ ProblemBuilt
    /\ outcome.args[1] = WithSegments
    /\ Len(network.generators) = 2
    /\ network.generators[1].id \in DOMAIN OrEmpty(bid_segments)
    /\ SegmentsOf(1) = <<>>
    /\ SegmentsOf(2) # <<>>
    /\ Len(outcome.value.c) = 1 + Len(SegmentsOf(2))

\* C25: the problem has one equality row per node: the row of node n has the
\* coefficient 1 in the columns of the variables of the generators located
\* at n and 0 in every other column, every column has its 1 in exactly one
\* row, and the right-hand side of the row is the total demand of the loads
\* located at n (0 without a load).
C25_NodeBalanceRows ==
    ProblemBuilt =>
        /\ Len(outcome.value.A_eq) = Len(network.nodes)
        /\ Len(outcome.value.b_eq) = Len(network.nodes)
        /\ \A r \in 1..Len(network.nodes) :
              /\ \A v \in 1..Len(outcome.value.A_eq[r]) :
                    outcome.value.A_eq[r][v] =
                       IF \E i \in 1..Len(network.generators) :
                             /\ network.generators[i].node_id = network.nodes[r].id
                             /\ VarsBefore(i) < v
                             /\ v <= VarsBefore(i) + VarCount(i)
                       THEN 1 ELSE 0
              /\ outcome.value.b_eq[r] =
                    SumOf([k \in 1..Len(network.loads) |->
                             IF network.loads[k].node_id = network.nodes[r].id
                             THEN network.loads[k].demand ELSE 0])
        /\ network.generators # <<>> =>
              \A v \in 1..Len(outcome.value.c) :
                 Cardinality({r \in 1..Len(network.nodes) :
                                outcome.value.A_eq[r][v] = 1}) = 1

\* a problem with a segmented generator at one node, a generator at another
\* node, and a node with a load but no generator
C25_Witness ==
    /\ ProblemBuilt
    /\ Len(network.generators) = 2
    /\ network.generators[1].node_id # network.generators[2].node_id
    /\ \E i \in 1..2 : Len(SegmentsOf(i)) >= 2
    /\ \E r \in 1..Len(network.nodes) :
          /\ \A v \in 1..Len(outcome.value.A_eq[r]) : outcome.value.A_eq[r][v] = 0
          /\ outcome.value.b_eq[r] > 0

\* C26: for a network without generators the formulator completes without
\* error and returns a problem with exactly one placeholder variable: an
\* objective vector of length 1 and an equality matrix with one column.
C26_PlaceholderVariable ==
    (outcome.call = "_build_optimization_problem" /\ network.generators = <<>>) =>
        /\ outcome.kind = "returned"
        /\ Len(outcome.value.c) = 1
        /\ \A r \in 1..Len(outcome.value.A_eq) : Len(outcome.value.A_eq[r]) = 1

\* C27: in both formulators the capacity warning is given exactly when the
\* sum of the variables' upper bounds is below 0.9 x the total demand, and
\* the call returns its problem all the same.
C27_WarningBelowNineTenths ==
    ProblemBuilt =>
        (outcome.value.warning
         <=> SumOf([k \in 1..Len(outcome.value.bounds) |-> outcome.value.bounds[k][2]]) * 10
                < SumOf(outcome.value.b_eq) * 9)

====
